---- MODULE Spec2Model ----
(***************************************************************************)
(* Model of the infrared pulse-timing protocol engine: the generic decoder *)
(* (protocol.py), the tag protocol and its field codec (tag_protocol.py),  *)
(* the receivers and the transmitter (infrared.py) over the CircuitPython  *)
(* pulse reader and writer (circuitpython.py), and the length-prefixed CRC *)
(* protocol of test_protocol.py.                                           *)
(*                                                                         *)
(* Optional values (Python's None) are records [is_none, value].  Signal   *)
(* strengths are exact rationals kept as a numerator over                  *)
(* 10 * error_threshold (the code computes them in floating point).        *)
(***************************************************************************)
EXTENDS Integers, Sequences, FiniteSets, TLC

VARIABLES
    d,          \* Spec: the decoder under test (a TagInfraredDecoder)
    out,        \* Spec: what the most recent decode call returned
    checks,     \* Spec: the check_pulse calls made by the most recent decode call
    tx,         \* Spec: ghost, the packet transmission being followed
    resets,     \* Spec: ghost, whether reset has been called since construction
    op,         \* Spec: ghost, the most recent call on d: "new", "decode", "reset"
    arg,        \* Spec: ghost, the argument of that call (0 for "new")
    mr,         \* SpecMulti: the InfraredMultiReceiver (sensors N, A, B)
    m_round,    \* SpecMulti: ghost, the final round of the last receive() of mr
    sh,         \* SpecMulti: the same receiver built without sensor N
    sh_round,   \* SpecMulti: ghost, the final round of the last receive() of sh
    m_hist,     \* SpecMulti: ghost, the most recent packet mr returned
    tag,        \* SpecCodec: the TagData given to encode_tag_data
    enc,        \* SpecCodec: the result of encode_tag_data(tag)
    dcd,        \* SpecCodec: the result of decode_tag_data(enc)
    sr,         \* SpecSingle: the InfraredSingleReceiver and its pulse source
    s_call,     \* SpecSingle: ghost, what the last receive() of sr did
    s_air,      \* SpecSingle: the pulses of a transmission still to arrive
    s_pkt,      \* SpecSingle: ghost, the pulses of the packet in progress
    tr,         \* SpecSend: the InfraredTransmitter, its default writer and encoder
    alt,        \* SpecSend: the other PulseWriter, passed as the override
    t_call,     \* SpecSend: ghost, the arguments and outcome of the last send()
    mw,         \* SpecMW: the decoder under test (an MWDecoder)
    mw_call,    \* SpecMW: ghost, the pulse and the result of the last decode call
    mw_tx,      \* SpecMW: ghost, the packet transmission being followed
    bw,         \* SpecBits: the InfraredDecoder whose write_bit is called
    bw_bits,    \* SpecBits: ghost, the bits written since bw_from
    bw_from,    \* SpecBits: ghost, where bw_bits starts: "new" or "reset"
    e_byte,     \* SpecEncoder: the byte given to TagInfraredEncoder.encode
    e_out,      \* SpecEncoder: the durations encode returned, <<>> before the call
    rr,         \* SpecRounds: the InfraredMultiReceiver (sensors A, B)
    r_pc,       \* SpecRounds: where the host is: "idle", or "loop" inside receive()
    r_ret,      \* SpecRounds: what the last receive() of rr returned
    r_marg      \* SpecRounds: ghost, each decoder's resets and matched pulses

vars == <<d, out, checks, tx, resets, op, arg,
          mr, m_round, sh, sh_round, m_hist, tag, enc, dcd,
          sr, s_call, s_air, s_pkt, tr, alt, t_call, mw, mw_call, mw_tx,
          bw, bw_bits, bw_from,
          e_byte, e_out,
          rr, r_pc, r_ret, r_marg>>

decoderVars == <<d, out, checks, tx, resets, op, arg>>
multiVars == <<mr, m_round, sh, sh_round, m_hist>>
codecVars == <<tag, enc, dcd>>
singleVars == <<sr, s_call, s_air, s_pkt>>
sendVars == <<tr, alt, t_call>>
mwVars == <<mw, mw_call, mw_tx>>
bitsVars == <<bw, bw_bits, bw_from>>
encoderVars == <<e_byte, e_out>>
roundsVars == <<rr, r_pc, r_ret, r_marg>>

\* The variables each specification leaves alone.
exceptDecoder ==
    <<multiVars, codecVars, singleVars, sendVars,
      mwVars, bitsVars, encoderVars, roundsVars>>
exceptMulti ==
    <<decoderVars, codecVars, singleVars, sendVars,
      mwVars, bitsVars, encoderVars, roundsVars>>
exceptCodec ==
    <<decoderVars, multiVars, singleVars, sendVars,
      mwVars, bitsVars, encoderVars, roundsVars>>
exceptSingle ==
    <<decoderVars, multiVars, codecVars, sendVars,
      mwVars, bitsVars, encoderVars, roundsVars>>
exceptSend ==
    <<decoderVars, multiVars, codecVars, singleVars,
      mwVars, bitsVars, encoderVars, roundsVars>>
exceptMW ==
    <<decoderVars, multiVars, codecVars, singleVars,
      sendVars, bitsVars, encoderVars, roundsVars>>
exceptBits ==
    <<decoderVars, multiVars, codecVars, singleVars,
      sendVars, mwVars, encoderVars, roundsVars>>
exceptEncoder ==
    <<decoderVars, multiVars, codecVars, singleVars,
      sendVars, mwVars, bitsVars, roundsVars>>
exceptRounds ==
    <<decoderVars, multiVars, codecVars, singleVars,
      sendVars, mwVars, bitsVars, encoderVars>>

----------------------------------------------------------------------------
(* Optional values and integer helpers *)

NonePacket == [is_none |-> TRUE, value |-> <<>>]
SomePacket(v) == [is_none |-> FALSE, value |-> v]
NoneInt == [is_none |-> TRUE, value |-> 0]
SomeInt(n) == [is_none |-> FALSE, value |-> n]
NoneName == [is_none |-> TRUE, value |-> ""]
SomeName(s) == [is_none |-> FALSE, value |-> s]

Abs(x) == IF x < 0 THEN -x ELSE x
Max(a, b) == IF a >= b THEN a ELSE b
Min(a, b) == IF a <= b THEN a ELSE b

RECURSIVE BitAnd(_, _)
BitAnd(a, b) ==
    IF a = 0 \/ b = 0 THEN 0
    ELSE (a % 2) * (b % 2) + 2 * BitAnd(a \div 2, b \div 2)

RECURSIVE BitOr(_, _)
BitOr(a, b) ==
    IF a = 0 THEN b
    ELSE IF b = 0 THEN a
    ELSE Max(a % 2, b % 2) + 2 * BitOr(a \div 2, b \div 2)

RECURSIVE BitXor(_, _)
BitXor(a, b) ==
    IF a = 0 THEN b
    ELSE IF b = 0 THEN a
    ELSE ((a + b) % 2) + 2 * BitXor(a \div 2, b \div 2)

Shl(a, n) == a * (2 ^ n)
Shr(a, n) == a \div (2 ^ n)

----------------------------------------------------------------------------
(* tag_protocol.py: timing constants *)

TAG_ERROR_MARGIN == 500
TAG_PREAMBLE == <<3000, 6000, 3000>>
TAG_MARK == 2000
TAG_SPACE_ZERO == 1000
TAG_SPACE_ONE == 2000
TAG_TEAM_BITS == 2
TAG_PLAYER_BITS == 3
TAG_DAMAGE_BITS == 2
TAG_DATA_BITS == TAG_TEAM_BITS + TAG_PLAYER_BITS + TAG_DAMAGE_BITS
TAG_TOTAL_PULSES == Len(TAG_PREAMBLE) + TAG_DATA_BITS * 2

----------------------------------------------------------------------------
(* protocol.py: InfraredDecoder *)

\* InfraredDecoder.__init__
InfraredDecoder_init(error_threshold) ==
    [ error_threshold    |-> error_threshold,
      decoder_state      |-> 0,
      received_data      |-> <<>>,
      received_bit_index |-> 0,
      received_byte      |-> 0,
      max_error_margin   |-> 0,
      last_error_margin  |-> 0 ]

\* A mutant of reset_bit_writer: the bit index restarts at 0, as __init__
\* leaves it.
reset_bit_writer_at_zero(dec) ==
    [dec EXCEPT !.received_byte = 0, !.received_bit_index = 0]

\* InfraredDecoder._reset_bit_writer
reset_bit_writer(dec) ==
    [dec EXCEPT !.received_byte = 0, !.received_bit_index = 7]

\* A mutant of reset: the largest error margin of the packet is not cleared.
reset_keeps_max_margin(dec, error_margin) ==
    [reset_bit_writer(dec) EXCEPT
        !.decoder_state = 0,
        !.received_data = <<>>,
        !.last_error_margin = error_margin]

\* A mutant of reset: decoder_state is left as it is.
reset_keeps_state(dec, error_margin) ==
    [reset_bit_writer(dec) EXCEPT !.received_data = <<>>,
                                  !.max_error_margin = 0,
                                  !.last_error_margin = error_margin]

\* A mutant of reset: the running maximum is recorded, whatever the argument.
reset_records_running(dec, error_margin) ==
    [reset_bit_writer(dec) EXCEPT
        !.decoder_state = 0,
        !.received_data = <<>>,
        !.max_error_margin = 0,
        !.last_error_margin = dec.max_error_margin]

\* A mutant of reset: the decoder is left as if the first preamble pulse had
\* been matched.
reset_past_first_pulse(dec, error_margin) ==
    [reset_bit_writer(dec) EXCEPT
        !.decoder_state = 1,
        !.received_data = <<>>,
        !.max_error_margin = 0,
        !.last_error_margin = error_margin]

\* A mutant of reset: the bit writer is left as it is.
reset_keeps_bit_writer(dec, error_margin) ==
    [dec EXCEPT !.decoder_state = 0,
                !.received_data = <<>>,
                !.max_error_margin = 0,
                !.last_error_margin = error_margin]

\* InfraredDecoder.reset
reset(dec, error_margin) ==
    [reset_bit_writer(dec) EXCEPT
        !.decoder_state = 0,
        !.received_data = <<>>,
        !.max_error_margin = 0,
        !.last_error_margin = error_margin]

\* A mutant of check_pulse: the deviation of a pulse that does not match is
\* recorded as well.
check_pulse_records_all(dec, received, expected) ==
    LET margin == Abs(received - expected)
        match == margin < dec.error_threshold
    IN  [ match |-> match,
          dec   |-> [dec EXCEPT !.max_error_margin = Max(@, margin)],
          call  |-> [received |-> received, expected |-> expected, match |-> match] ]

\* A mutant of check_pulse: the tolerance test admits a deviation equal to the
\* threshold.
check_pulse_inclusive(dec, received, expected) ==
    LET margin == Abs(received - expected)
        match == margin <= dec.error_threshold
    IN  [ match |-> match,
          dec   |-> IF match
                    THEN [dec EXCEPT !.max_error_margin = Max(@, margin)]
                    ELSE dec,
          call  |-> [received |-> received, expected |-> expected, match |-> match] ]

\* InfraredDecoder.check_pulse: the result, the decoder afterwards, and a
\* record of the call.
check_pulse(dec, received, expected) ==
    LET margin == Abs(received - expected)
        match == margin < dec.error_threshold
    IN  [ match |-> match,
          dec   |-> IF match
                    THEN [dec EXCEPT !.max_error_margin = Max(@, margin)]
                    ELSE dec,
          call  |-> [received |-> received, expected |-> expected, match |-> match] ]

\* A mutant of write_bit: the byte is completed one call late.
write_bit_wraps_late(dec, bit) ==
    LET byte == IF bit = 1
                THEN BitOr(dec.received_byte, Shl(1, dec.received_bit_index))
                ELSE dec.received_byte
        index == dec.received_bit_index - 1
    IN  IF index < -1
        THEN reset_bit_writer([dec EXCEPT !.received_data = Append(@, byte)])
        ELSE [dec EXCEPT !.received_byte = byte, !.received_bit_index = index]

\* InfraredDecoder.write_bit
write_bit(dec, bit) ==
    LET byte == IF bit = 1
                THEN BitOr(dec.received_byte, Shl(1, dec.received_bit_index))
                ELSE dec.received_byte
        index == dec.received_bit_index - 1
    IN  IF index < 0
        THEN reset_bit_writer([dec EXCEPT !.received_data = Append(@, byte)])
        ELSE [dec EXCEPT !.received_byte = byte, !.received_bit_index = index]

\* InfraredDecoder.last_error_margin (property)
last_error_margin(dec) == SomeInt(dec.last_error_margin)

\* The denominator of the signal strengths of a decoder.
StrengthScale(dec) == 10 * dec.error_threshold

\* A mutant of last_signal_strength: the strength falls from 1.0 rather than
\* from 1.3, so that a margin equal to the threshold gives 0.
last_signal_strength_from_one(dec) ==
    IF dec.last_error_margin = 0
    THEN SomeInt(StrengthScale(dec))
    ELSE SomeInt(Min(StrengthScale(dec),
                     10 * dec.error_threshold - 10 * dec.last_error_margin))

\* InfraredDecoder.last_signal_strength (property), times StrengthScale(dec):
\* min(1, 1.3 - last_error_margin / error_threshold).
last_signal_strength(dec) ==
    IF dec.last_error_margin = 0
    THEN SomeInt(StrengthScale(dec))
    ELSE SomeInt(Min(StrengthScale(dec),
                     13 * dec.error_threshold - 10 * dec.last_error_margin))

----------------------------------------------------------------------------
(* tag_protocol.py: the tag field codec *)

\* TagData.__init__
TagData(team, player, damage) ==
    [team |-> team, player |-> player, damage |-> damage]

\* Results of the codec functions: a value, or the ValueError they raise.
Raised == [status |-> "ValueError", bytes |-> <<>>, tag |-> TagData(0, 0, 0)]
ReturnedBytes(b) == [status |-> "returned", bytes |-> b, tag |-> TagData(0, 0, 0)]
ReturnedTag(t) == [status |-> "returned", bytes |-> <<>>, tag |-> t]
NotCalled == [status |-> "not called", bytes |-> <<>>, tag |-> TagData(0, 0, 0)]

\* A mutant of decode_tag_data: the player field is not shifted back to 1..8.
decode_tag_data_raw_player(data) ==
    IF Len(data) < 1
    THEN Raised
    ELSE LET byte == data[1]
             team == BitAnd(Shr(byte, 5), 3)
             player == BitAnd(Shr(byte, 2), 7)
             damage == 1 + BitAnd(byte, 3)
         IN  ReturnedTag(TagData(team, player, damage))

\* decode_tag_data
decode_tag_data(data) ==
    IF Len(data) < 1
    THEN Raised
    ELSE LET byte == data[1]
             team == BitAnd(Shr(byte, 5), 3)
             player == 1 + BitAnd(Shr(byte, 2), 7)
             damage == 1 + BitAnd(byte, 3)
         IN  ReturnedTag(TagData(team, player, damage))

\* A mutant of encode_tag_data: no range checks, the fields are masked into
\* their bit widths instead.
encode_tag_data_masking(tag_data) ==
    LET b0 == Shl(BitAnd(tag_data.team % 4, 3), 5)
        b1 == BitOr(b0, Shl(BitAnd((tag_data.player - 1) % 8, 7), 2))
        b2 == BitOr(b1, BitAnd((tag_data.damage - 1) % 4, 3))
    IN  ReturnedBytes(<<b2>>)

\* encode_tag_data
encode_tag_data(tag_data) ==
    IF tag_data.team < 0 \/ tag_data.team > 3 THEN Raised
    ELSE IF tag_data.player < 1 \/ tag_data.player > 8 THEN Raised
    ELSE IF tag_data.damage < 1 \/ tag_data.damage > 4 THEN Raised
    ELSE LET b0 == Shl(BitAnd(tag_data.team, 3), 5)
             b1 == BitOr(b0, Shl(BitAnd(tag_data.player - 1, 7), 2))
             b2 == BitOr(b1, BitAnd(tag_data.damage - 1, 3))
         IN  ReturnedBytes(<<b2>>)

----------------------------------------------------------------------------
(* tag_protocol.py: TagInfraredDecoder and TagInfraredEncoder *)

\* TagInfraredDecoder.__init__
TagInfraredDecoder_init == InfraredDecoder_init(TAG_ERROR_MARGIN)

\* A mutant of Decoded: a call that aborts returns a packet as well.
Decoded_on_every_reset(dec, ret, calls, did_reset) ==
    [dec |-> dec,
     ret |-> IF did_reset /\ ret.is_none THEN SomePacket(<<0>>) ELSE ret,
     calls |-> calls, did_reset |-> did_reset]

\* What one decode call did: the decoder afterwards, the value returned, the
\* check_pulse calls it made and whether it called reset.
Decoded(dec, ret, calls, did_reset) ==
    [dec |-> dec, ret |-> ret, calls |-> calls, did_reset |-> did_reset]

\* TagInfraredDecoder.decode
TagInfraredDecoder_decode(dec, pulse) ==
    IF dec.decoder_state < Len(TAG_PREAMBLE)
    THEN LET c == check_pulse(dec, pulse, TAG_PREAMBLE[dec.decoder_state + 1])
         IN  IF c.match
             THEN Decoded([c.dec EXCEPT !.decoder_state = @ + 1],
                          NonePacket, <<c.call>>, FALSE)
             ELSE Decoded(reset(c.dec, TAG_ERROR_MARGIN),
                          NonePacket, <<c.call>>, TRUE)
    ELSE IF dec.decoder_state < TAG_TOTAL_PULSES
    THEN LET bit_index == dec.decoder_state - Len(TAG_PREAMBLE)
         IN  IF bit_index % 2 = 0
             THEN LET c == check_pulse(dec, pulse, TAG_MARK)
                  IN  IF ~c.match
                      THEN Decoded(reset(c.dec, TAG_ERROR_MARGIN),
                                   NonePacket, <<c.call>>, TRUE)
                      ELSE Decoded([c.dec EXCEPT !.decoder_state = @ + 1],
                                   NonePacket, <<c.call>>, FALSE)
             ELSE LET c1 == check_pulse(dec, pulse, TAG_SPACE_ONE)
                      c0 == check_pulse(c1.dec, pulse, TAG_SPACE_ZERO)
                  IN  IF c1.match
                      THEN Decoded([write_bit(c1.dec, 1) EXCEPT !.decoder_state = @ + 1],
                                   NonePacket, <<c1.call>>, FALSE)
                      ELSE IF c0.match
                      THEN Decoded([write_bit(c0.dec, 0) EXCEPT !.decoder_state = @ + 1],
                                   NonePacket, <<c1.call, c0.call>>, FALSE)
                      ELSE Decoded(reset(c0.dec, TAG_ERROR_MARGIN),
                                   NonePacket, <<c1.call, c0.call>>, TRUE)
    ELSE IF dec.decoder_state = TAG_TOTAL_PULSES
    THEN LET w == write_bit(dec, 0)
             tag_data == Shr(w.received_data[1], 1)
         IN  Decoded(reset(w, w.max_error_margin),
                     SomePacket(<<tag_data>>), <<>>, TRUE)
    ELSE Decoded(reset(dec, TAG_ERROR_MARGIN), NonePacket, <<>>, TRUE)

\* The loop of TagInfraredEncoder.encode over the data bits: `i` is the loop
\* index, `tag_data` the shifted byte, `durations` what has been written.
RECURSIVE encode_bits(_, _, _)
encode_bits(i, tag_data, durations) ==
    IF i >= TAG_DATA_BITS
    THEN durations
    ELSE LET space == IF BitAnd(tag_data, 128) > 0
                      THEN TAG_SPACE_ONE
                      ELSE TAG_SPACE_ZERO
         IN  encode_bits(i + 1, Shl(tag_data, 1),
                         durations \o <<TAG_MARK, space>>)

\* A mutant of encode: the byte is not shifted left before its bits are sent.
TagInfraredEncoder_encode_unshifted(data) ==
    encode_bits(0, data[1], TAG_PREAMBLE)

\* TagInfraredEncoder.encode
TagInfraredEncoder_encode(data) ==
    encode_bits(0, Shl(data[1], 1), TAG_PREAMBLE)

----------------------------------------------------------------------------
(* infrared.py: InfraredSingleReceiver's read-through properties *)

\* InfraredSingleReceiver.last_error_margin (property)
InfraredSingleReceiver_last_error_margin(dec) == last_error_margin(dec)

\* InfraredSingleReceiver.last_signal_strength (property)
InfraredSingleReceiver_last_signal_strength(dec) == last_signal_strength(dec)

----------------------------------------------------------------------------
(* circuitpython.py: PulseInReader; infrared.py: InfraredMultiReceiver.     *)
(* A Python dict is a sequence of [name, value] entries in insertion order. *)

\* A mutant of read_pulse: the oldest pulse is returned and left in the queue.
read_pulse_peek(queue) ==
    IF Len(queue) > 0
    THEN [pulse |-> SomeInt(Head(queue)), queue |-> queue]
    ELSE [pulse |-> NoneInt, queue |-> queue]

\* A mutant of read_pulse: the newest pulse of the queue is taken.
read_pulse_newest(queue) ==
    IF Len(queue) > 0
    THEN [pulse |-> SomeInt(queue[Len(queue)]),
          queue |-> SubSeq(queue, 1, Len(queue) - 1)]
    ELSE [pulse |-> NoneInt, queue |-> queue]

\* PulseInReader.read_pulse on the queue of a PulseIn: the pulse returned and
\* the queue afterwards.
read_pulse(queue) ==
    IF Len(queue) > 0
    THEN [pulse |-> SomeInt(Head(queue)), queue |-> Tail(queue)]
    ELSE [pulse |-> NoneInt, queue |-> queue]

Entry(name, value) == [name |-> name, value |-> value]

\* The keys of a dict, as a set.
Keys(dict) == {dict[i].name : i \in DOMAIN dict}

\* dict[name], for a key of the dict.
Lookup(dict, name) ==
    dict[CHOOSE i \in DOMAIN dict : dict[i].name = name].value

\* The entries of a dict built by visiting `names` in order from the i-th and
\* keeping the names in `kept`, each with its value in `values`.
RECURSIVE Collect(_, _, _, _)
Collect(names, i, kept, values) ==
    IF i > Len(names) THEN <<>>
    ELSE (IF names[i] \in kept THEN <<Entry(names[i], values[names[i]])>> ELSE <<>>)
         \o Collect(names, i + 1, kept, values)

\* InfraredMultiReceiver.__init__: one decoder per reader, made by the
\* decoder_factory of code.py (lambda: TagInfraredDecoder()).
InfraredMultiReceiver_init(names) ==
    [ names                 |-> names,
      pulse_readers         |-> [n \in {names[i] : i \in DOMAIN names} |-> <<>>],
      decoders              |-> [n \in {names[i] : i \in DOMAIN names} |->
                                    TagInfraredDecoder_init],
      last_error_margins    |-> <<>>,
      last_signal_strengths |-> <<>> ]

\* The scan for the lowest error margin over a dict of margins: min_error_margin
\* starts at infinity (none) and best_receiver_name at None.
RECURSIVE scan_lowest(_, _, _, _)
scan_lowest(margins, i, min_error_margin, best_receiver_name) ==
    IF i > Len(margins) THEN best_receiver_name
    ELSE IF min_error_margin.is_none \/ margins[i].value < min_error_margin.value
    THEN scan_lowest(margins, i + 1, SomeInt(margins[i].value),
                     SomeName(margins[i].name))
    ELSE scan_lowest(margins, i + 1, min_error_margin, best_receiver_name)

\* The same scan with the comparison turned round: it keeps the highest margin.
RECURSIVE scan_highest(_, _, _, _)
scan_highest(margins, i, max_error_margin, best_receiver_name) ==
    IF i > Len(margins) THEN best_receiver_name
    ELSE IF max_error_margin.is_none \/ margins[i].value > max_error_margin.value
    THEN scan_highest(margins, i + 1, SomeInt(margins[i].value),
                      SomeName(margins[i].name))
    ELSE scan_highest(margins, i + 1, max_error_margin, best_receiver_name)

\* The scan for the lowest error margin with <= for <: of equal margins it
\* keeps the last.
RECURSIVE scan_lowest_or_equal(_, _, _, _)
scan_lowest_or_equal(margins, i, min_error_margin, best_receiver_name) ==
    IF i > Len(margins) THEN best_receiver_name
    ELSE IF min_error_margin.is_none \/ margins[i].value <= min_error_margin.value
    THEN scan_lowest_or_equal(margins, i + 1, SomeInt(margins[i].value),
                              SomeName(margins[i].name))
    ELSE scan_lowest_or_equal(margins, i + 1, min_error_margin, best_receiver_name)

\* A mutant of receive_best: of equal lowest margins the last sensor is chosen.
receive_best_last_tie(margins) == scan_lowest_or_equal(margins, 1, NoneInt, NoneName)

\* A mutant of receive_best: the sensor with the highest margin is chosen.
receive_best_highest(margins) == scan_highest(margins, 1, NoneInt, NoneName)

\* InfraredMultiReceiver.receive: "Determine the best signal by minimum error
\* margin".
receive_best(margins) == scan_lowest(margins, 1, NoneInt, NoneName)

\* A mutant of record_margins: the stats of every decoder are recorded, not
\* only of those that produced data.
record_margins_all(names, decoders, datas) ==
    Collect(names, 1, DOMAIN decoders,
            [n \in DOMAIN decoders |-> last_error_margin(decoders[n]).value])

\* A mutant of record_margins: the decoder's running maximum is recorded.
record_margins_running(names, decoders, datas) ==
    Collect(names, 1, Keys(datas),
            [n \in DOMAIN decoders |-> decoders[n].max_error_margin])

\* InfraredMultiReceiver.receive: "Record receiver stats", the error margins.
record_margins(names, decoders, datas) ==
    Collect(names, 1, Keys(datas),
            [n \in DOMAIN decoders |-> last_error_margin(decoders[n]).value])

\* InfraredMultiReceiver.receive: "Record receiver stats", the signal strengths.
record_strengths(names, decoders, datas) ==
    Collect(names, 1, Keys(datas),
            [n \in DOMAIN decoders |-> last_signal_strength(decoders[n]).value])

\* What one receive() call did: the receiver afterwards, the value returned,
\* of its final round the data each decoder produced and the sensor whose data
\* was returned, whether datas[best_receiver_name] raised a KeyError, the
\* last_error_margin each decoder held when the closing reset was called, and
\* the sensors whose decoders were then past state 0.
Received(rcv, ret, datas, best, raised, held, midway) ==
    [rcv |-> rcv, ret |-> ret, datas |-> datas, best |-> best, raised |-> raised,
     held |-> held, midway |-> midway]

\* InfraredMultiReceiver.receive: one round of the while loop, and whether
\* the loop goes round again.
receive_round(rcv) ==
    LET names == rcv.names
        reads == [n \in DOMAIN rcv.pulse_readers |-> read_pulse(rcv.pulse_readers[n])]
        pulses == Collect(names, 1,
                          {n \in DOMAIN reads : ~reads[n].pulse.is_none},
                          [n \in DOMAIN reads |-> reads[n].pulse.value])
        readers1 == [n \in DOMAIN rcv.pulse_readers |-> reads[n].queue]
        decodes == [n \in Keys(pulses) |->
                       TagInfraredDecoder_decode(rcv.decoders[n], Lookup(pulses, n))]
        decoders1 == [n \in DOMAIN rcv.decoders |->
                         IF n \in Keys(pulses) THEN decodes[n].dec
                         ELSE rcv.decoders[n]]
        datas == Collect(names, 1,
                         {n \in Keys(pulses) : ~decodes[n].ret.is_none},
                         [n \in Keys(pulses) |-> decodes[n].ret.value])
        margins == record_margins(names, decoders1, datas)
        strengths == record_strengths(names, decoders1, datas)
        best == receive_best(margins)
        held == [n \in DOMAIN decoders1 |-> last_error_margin(decoders1[n]).value]
        midway == {n \in DOMAIN decoders1 : decoders1[n].decoder_state > 0}
        decoders2 == [n \in DOMAIN decoders1 |->
                         reset(decoders1[n], last_error_margin(decoders1[n]).value)]
        Last(received) == [again |-> FALSE, out |-> received]
    IN  IF Len(pulses) = 0
        THEN Last(Received(rcv, NonePacket, <<>>, NoneName, FALSE, <<>>, {}))
        ELSE IF Len(datas) > 0
        THEN LET rcv2 == [rcv EXCEPT !.pulse_readers = readers1,
                                     !.decoders = decoders2,
                                     !.last_error_margins = margins,
                                     !.last_signal_strengths = strengths]
             IN  IF ~best.is_none /\ best.value \in Keys(datas)
                 THEN Last(Received(rcv2, SomePacket(Lookup(datas, best.value)),
                                    datas, best, FALSE, held, midway))
                 ELSE Last(Received(rcv2, NonePacket, datas, best, TRUE, held,
                                    midway))
        ELSE [again |-> TRUE,
              out   |-> Received([rcv EXCEPT !.pulse_readers = readers1,
                                             !.decoders = decoders1],
                                 NonePacket, <<>>, NoneName, FALSE, <<>>, {})]

\* InfraredMultiReceiver.receive: the rounds of the while loop, to the return.
RECURSIVE InfraredMultiReceiver_receive(_)
InfraredMultiReceiver_receive(rcv) ==
    LET round == receive_round(rcv)
    IN  IF round.again
        THEN InfraredMultiReceiver_receive(round.out.rcv)
        ELSE round.out

\* A mutant of last_best_receiver: the sensor with the highest margin.
last_best_receiver_highest(rcv) ==
    scan_highest(rcv.last_error_margins, 1, NoneInt, NoneName)

\* InfraredMultiReceiver.last_best_receiver (property)
last_best_receiver(rcv) ==
    scan_lowest(rcv.last_error_margins, 1, NoneInt, NoneName)

\* Python's sorted() on the entries of a dict by value: a stable sort,
\* ascending, or descending with reverse=True.
RECURSIVE sorted(_, _)
sorted(dict, reverse) ==
    IF Len(dict) = 0 THEN <<>>
    ELSE LET Before(a, b) == IF reverse THEN a.value > b.value
                             ELSE a.value < b.value
             first == CHOOSE i \in DOMAIN dict :
                          /\ \A j \in DOMAIN dict : ~Before(dict[j], dict[i])
                          /\ \A j \in 1 .. (i - 1) : Before(dict[i], dict[j])
             rest == SubSeq(dict, 1, first - 1) \o SubSeq(dict, first + 1, Len(dict))
         IN  <<dict[first]>> \o sorted(rest, reverse)

\* InfraredMultiReceiver.last_receivers (property)
last_receivers(rcv) ==
    LET by_margin == sorted(rcv.last_error_margins, FALSE)
    IN  [i \in DOMAIN by_margin |-> by_margin[i].name]

\* InfraredMultiReceiver.last_error_margin (property)
InfraredMultiReceiver_last_error_margin(rcv) ==
    LET best_receiver_name == last_best_receiver(rcv)
    IN  IF ~best_receiver_name.is_none
        THEN SomeInt(Lookup(rcv.last_error_margins, best_receiver_name.value))
        ELSE NoneInt

\* InfraredMultiReceiver.last_signal_strength (property)
InfraredMultiReceiver_last_signal_strength(rcv) ==
    LET best_receiver_name == last_best_receiver(rcv)
    IN  IF ~best_receiver_name.is_none
        THEN SomeInt(Lookup(rcv.last_signal_strengths, best_receiver_name.value))
        ELSE NoneInt

\* InfraredMultiReceiver.last_error_margins (property)
last_error_margins(rcv) == sorted(rcv.last_error_margins, FALSE)

\* InfraredMultiReceiver.last_signal_strengths (property)
last_signal_strengths(rcv) == sorted(rcv.last_signal_strengths, TRUE)

----------------------------------------------------------------------------
(* infrared.py: InfraredSingleReceiver over a PulseInReader *)

\* InfraredSingleReceiver.__init__ as code.py would build it: the queue of the
\* reader's PulseIn and a TagInfraredDecoder.
InfraredSingleReceiver_init ==
    [pulse_reader |-> <<>>, decoder |-> TagInfraredDecoder_init]

\* What one receive() call did: the receiver afterwards, the value returned,
\* the pulses given to decode, in order, and whether read_pulse returned None.
SingleReceived(rcv, ret, fed, dry) ==
    [rcv |-> rcv, ret |-> ret, fed |-> fed, dry |-> dry]

\* A receive() that goes on reading after a packet, as far as the source has
\* pulses, and returns the last packet.
RECURSIVE drain_loop(_, _, _)
drain_loop(rcv, fed, data) ==
    LET next_pulse == read_pulse(rcv.pulse_reader)
        r == TagInfraredDecoder_decode(rcv.decoder, next_pulse.pulse.value)
    IN  IF next_pulse.pulse.is_none
        THEN SingleReceived(rcv, data, fed, TRUE)
        ELSE drain_loop([pulse_reader |-> next_pulse.queue, decoder |-> r.dec],
                        Append(fed, next_pulse.pulse.value),
                        IF r.ret.is_none THEN data ELSE r.ret)

\* A mutant of InfraredSingleReceiver_receive: it drains the source.
InfraredSingleReceiver_receive_drain(rcv) == drain_loop(rcv, <<>>, NonePacket)

\* InfraredSingleReceiver.receive: the while loop, from a read_pulse on.
RECURSIVE receive_loop(_, _)
receive_loop(rcv, fed) ==
    LET next_pulse == read_pulse(rcv.pulse_reader)
        r == TagInfraredDecoder_decode(rcv.decoder, next_pulse.pulse.value)
        rcv1 == [pulse_reader |-> next_pulse.queue, decoder |-> r.dec]
    IN  IF next_pulse.pulse.is_none
        THEN SingleReceived(rcv, NonePacket, fed, TRUE)
        ELSE IF ~r.ret.is_none
        THEN SingleReceived(rcv1, r.ret, Append(fed, next_pulse.pulse.value), FALSE)
        ELSE receive_loop(rcv1, Append(fed, next_pulse.pulse.value))

\* A mutant of InfraredSingleReceiver_receive: every call begins with the
\* decoder reset.
InfraredSingleReceiver_receive_anew(rcv) ==
    receive_loop([rcv EXCEPT !.decoder = reset(@, @.last_error_margin)], <<>>)

\* InfraredSingleReceiver.receive
InfraredSingleReceiver_receive(rcv) == receive_loop(rcv, <<>>)

----------------------------------------------------------------------------
(* circuitpython.py: PulseOutWriter; infrared.py: InfraredTransmitter.       *)
(* A writer is the sequence of the write_pulses calls made on it.            *)

NoWriter == [is_none |-> TRUE, value |-> <<>>]
SomeWriter(w) == [is_none |-> FALSE, value |-> w]

\* PulseOutWriter.write_pulses: PulseOut.send(pulses) is called once; `fails`
\* says whether it raises.
write_pulses(writer, pulses, fails) ==
    Append(writer, [pulses |-> pulses, raised |-> fails])

\* InfraredTransmitter.__init__ as code.py builds it: a PulseOutWriter and a
\* TagInfraredEncoder, of which the calls of encode are counted.
InfraredTransmitter_init == [pulse_writer |-> <<>>, encoder |-> [calls |-> 0]]

\* What one send() call did: the transmitter and the override afterwards, and
\* whether the call raised.
Sent(t, override, raised) == [t |-> t, override |-> override, raised |-> raised]

\* A mutant of InfraredTransmitter_send: the default writer is written too
\* when an override is given.
InfraredTransmitter_send_both(t, data, pulse_writer_override, fails) ==
    LET durations == TagInfraredEncoder_encode(data)
        t1 == [t EXCEPT !.encoder.calls = @ + 1]
    IN  IF ~pulse_writer_override.is_none
        THEN Sent([t1 EXCEPT !.pulse_writer = write_pulses(@, durations, FALSE)],
                  SomeWriter(write_pulses(pulse_writer_override.value,
                                          durations, fails)),
                  fails)
        ELSE Sent([t1 EXCEPT !.pulse_writer = write_pulses(@, durations, fails)],
                  pulse_writer_override, fails)

\* InfraredTransmitter.send: a writer object is true in `if
\* pulse_writer_override:`, None is false; an exception of write_pulses is not
\* caught.
InfraredTransmitter_send(t, data, pulse_writer_override, fails) ==
    LET durations == TagInfraredEncoder_encode(data)
        t1 == [t EXCEPT !.encoder.calls = @ + 1]
    IN  IF ~pulse_writer_override.is_none
        THEN Sent(t1,
                  SomeWriter(write_pulses(pulse_writer_override.value,
                                          durations, fails)),
                  fails)
        ELSE Sent([t1 EXCEPT !.pulse_writer = write_pulses(@, durations, fails)],
                  pulse_writer_override, fails)

----------------------------------------------------------------------------
(* test_protocol.py: the length-prefixed CRC protocol *)

IR_UNIT == 500
IR_ERROR_MARGIN == IR_UNIT \div 2
IR_HEADER_MARK == IR_UNIT * 8
IR_HEADER_SPACE == IR_UNIT * 6
IR_ZERO == IR_UNIT
IR_ONE == IR_UNIT * 3
IR_LEAD_OUT == IR_UNIT * 10
IR_CRC_GENERATOR == 29

\* _calculate_crc: the inner loop over the 8 bits, from the j-th.
RECURSIVE crc_shift(_, _)
crc_shift(crc, j) ==
    IF j >= 8 THEN crc
    ELSE IF BitAnd(crc, 128) # 0
    THEN crc_shift(BitXor(BitAnd(Shl(crc, 1), 255), IR_CRC_GENERATOR), j + 1)
    ELSE crc_shift(BitAnd(Shl(crc, 1), 255), j + 1)

\* _calculate_crc: the loop over the bytes, from the i-th.
RECURSIVE crc_bytes(_, _, _)
crc_bytes(data, i, crc) ==
    IF i > Len(data) THEN crc
    ELSE crc_bytes(data, i + 1, crc_shift(BitXor(crc, data[i]), 0))

\* _calculate_crc
calculate_crc(data) == crc_bytes(data, 1, 0)

\* TestEncoder._encode_byte: the 8 durations of a byte, MSB first.
encode_byte(value) ==
    [i \in 1 .. 8 |-> IF BitAnd(Shl(value, i - 1), 128) > 0 THEN IR_ONE ELSE IR_ZERO]

\* TestEncoder.encode: the loop over the data bytes, from the i-th.
RECURSIVE encode_bytes(_, _)
encode_bytes(data, i) ==
    IF i > Len(data) THEN <<>>
    ELSE encode_byte(data[i]) \o encode_bytes(data, i + 1)

\* TestEncoder.encode
TestEncoder_encode(data) ==
    <<IR_HEADER_MARK, IR_HEADER_SPACE>> \o encode_bytes(data, 1)
        \o encode_byte(calculate_crc(data)) \o <<IR_LEAD_OUT>>

\* MWDecoder.__init__
MWDecoder_init == InfraredDecoder_init(IR_ERROR_MARGIN)

\* MWDecoder.decode
MWDecoder_decode(dec, pulse) ==
    IF dec.decoder_state = 0
    THEN LET c == check_pulse(dec, pulse, IR_HEADER_MARK)
         IN  IF c.match
             THEN Decoded([c.dec EXCEPT !.decoder_state = 1],
                          NonePacket, <<c.call>>, FALSE)
             ELSE Decoded(c.dec, NonePacket, <<c.call>>, FALSE)
    ELSE IF dec.decoder_state = 1
    THEN LET c == check_pulse(dec, pulse, IR_HEADER_SPACE)
         IN  IF c.match
             THEN Decoded([c.dec EXCEPT !.decoder_state = 2],
                          NonePacket, <<c.call>>, FALSE)
             ELSE Decoded(reset(c.dec, IR_ERROR_MARGIN),
                          NonePacket, <<c.call>>, TRUE)
    ELSE IF dec.decoder_state = 2
    THEN LET c1 == check_pulse(dec, pulse, IR_ONE)
             c0 == check_pulse(c1.dec, pulse, IR_ZERO)
             cl == check_pulse(c0.dec, pulse, IR_LEAD_OUT)
             data == cl.dec.received_data
             received_crc == data[Len(data)]
             data_without_crc == SubSeq(data, 1, Len(data) - 1)
             calculated_crc == calculate_crc(data_without_crc)
         IN  IF c1.match
             THEN Decoded(write_bit(c1.dec, 1), NonePacket, <<c1.call>>, FALSE)
             ELSE IF c0.match
             THEN Decoded(write_bit(c0.dec, 0), NonePacket,
                          <<c1.call, c0.call>>, FALSE)
             ELSE IF cl.match
             THEN IF Len(data) < 2
                  THEN Decoded(reset(cl.dec, IR_ERROR_MARGIN), NonePacket,
                               <<c1.call, c0.call, cl.call>>, TRUE)
                  ELSE Decoded(reset(cl.dec, cl.dec.max_error_margin),
                               IF received_crc = calculated_crc
                               THEN SomePacket(data_without_crc)
                               ELSE NonePacket,
                               <<c1.call, c0.call, cl.call>>, TRUE)
             ELSE Decoded(reset(cl.dec, IR_ERROR_MARGIN), NonePacket,
                          <<c1.call, c0.call, cl.call>>, TRUE)
    ELSE Decoded(dec, NonePacket, <<>>, FALSE)

----------------------------------------------------------------------------
(* The inputs of the checks *)

\* The bytes a tag packet carries: TAG_DATA_BITS bits.
TagBytes == 0 .. (2 ^ TAG_DATA_BITS - 1)

\* Deviations, within the tolerance, applied to a transmitted pulse.
Jitters == {-499, 0}

\* Pulses fed to the decoder outside a followed transmission: the protocol's
\* durations and pulses at and next to the tolerance boundary.
AnyPulses == {1000, 2000, 2500, 2501, 3000, 3499, 3500, 6000}

\* Margins given to a direct reset call.
ResetMargins == {0, 150, 500, 650, 700}

\* The sensors of the multi-sensor receiver, in the order of the pulse_readers
\* dict; no pulse ever arrives at sensor N.
Sensors == <<"N", "A", "B">>
Hearing == {"A", "B"}
SensorsWithoutN == <<"A", "B">>

\* The bytes transmitted to the multi-sensor receiver.
MultiBytes == {82}

\* The deviation of every pulse of a transmission at one sensor.
MultiJitters == {10, 40}

\* The ways a transmission is seen: the sensors that see it, each with its
\* deviation.
Sightings ==
    UNION {[heard -> MultiJitters] : heard \in (SUBSET Hearing) \ {{}}}

\* Single pulses that arrive outside a transmission.
NoisePulses == {9000}

\* A transmission arrives at a sensor with at most MaxBacklog pulses queued,
\* a single pulse at a sensor with fewer than MaxNoise pulses queued.
MaxBacklog == 1
MaxNoise == 1

\* The bytes and deviations of the transmissions that reach the single
\* receiver's sensor, and the single pulses that reach it.
SingleBytes == {82}
SingleJitters == {0, 30}
SinglePulses == {9000}

\* Pulses reach the single receiver's sensor while at most MaxQueued are queued.
MaxQueued == 18

\* The numbers of pulses of a transmission that may arrive ahead of the rest.
SplitPoints == {8}

\* The bytes given to send().
SendBytes == {0, 82, 127}

\* send() is called at most MaxSends times.
MaxSends == 3

\* The bytes sent to the MWDecoder, the deviations of their pulses, and the
\* pulses that arrive outside a transmission: a lead-out and an unknown pulse.
MWBytes == {82, 167}
MWJitters == {0, 100}
MWAnyPulses == {IR_LEAD_OUT, IR_UNIT * 5}

\* At most MaxFlips bits of a transmission arrive as the opposite bit.
MaxFlips == 1

\* The TagData fields given to the codec: the valid ranges and their
\* neighbours on both sides.
TagInputs == {TagData(t, p, g) : t \in -1 .. 4, p \in 0 .. 9, g \in 0 .. 5}

\* SpecBits: the bits written between two resets, and the margins given to
\* reset.
MaxBits == 10
BitsMargins == {0, 500}

\* SpecRounds: the pulses a sensor may hold when a transmission or a single
\* pulse reaches it.
MaxRoundBacklog == 1

\* SpecEncoder: every value of a byte.
EncoderBytes == 0 .. 255

\* The values of the ghost variable tx.
TxOff == [src |-> "off", byte |-> 0, pos |-> 0, dev |-> 0, rets |-> <<>>,
          ab_state |-> 0]
TxNew == [TxOff EXCEPT !.src = "new"]
TxAbort(state) == [TxOff EXCEPT !.src = "abort", !.ab_state = state]

----------------------------------------------------------------------------
(* Spec: one TagInfraredDecoder, from construction, under decode and reset *)

DecoderInit ==
    /\ d = TagInfraredDecoder_init
    /\ out = NonePacket
    /\ checks = <<>>
    /\ tx = TxNew
    /\ resets = FALSE
    /\ op = "new"
    /\ arg = 0

\* decode(pulse) with the next pulse of the followed transmission: the
\* encoder's output for byte b, the pulse deviating by j.
DecodeEncoded(b, j) ==
    /\ tx.src # "off"
    /\ tx.pos < TAG_TOTAL_PULSES
    /\ LET pulse == TagInfraredEncoder_encode(<<b>>)[tx.pos + 1] + j
           r == TagInfraredDecoder_decode(d, pulse)
       IN  /\ d' = r.dec
           /\ out' = r.ret
           /\ checks' = r.calls
           /\ resets' = (resets \/ r.did_reset)
           /\ op' = "decode"
           /\ arg' = pulse
           /\ tx' = [tx EXCEPT !.byte = b,
                               !.pos = @ + 1,
                               !.dev = Max(@, Abs(j)),
                               !.rets = IF r.ret.is_none THEN @
                                        ELSE Append(@, r.ret.value)]

\* decode(pulse) with any pulse.  An invalid pulse in a preamble state starts
\* the following of the next transmission; the pulse after a whole followed
\* transmission ends it.
DecodeAny(pulse) ==
    LET r == TagInfraredDecoder_decode(d, pulse)
        invalid_preamble ==
            /\ d.decoder_state < Len(TAG_PREAMBLE)
            /\ Abs(pulse - TAG_PREAMBLE[d.decoder_state + 1]) >= TAG_ERROR_MARGIN
    IN  /\ d' = r.dec
        /\ out' = r.ret
        /\ checks' = r.calls
        /\ resets' = (resets \/ r.did_reset)
        /\ op' = "decode"
        /\ arg' = pulse
        /\ tx' = IF invalid_preamble
                 THEN TxAbort(d.decoder_state)
                 ELSE IF tx.src # "off" /\ tx.pos = TAG_TOTAL_PULSES
                 THEN [tx EXCEPT !.pos = @ + 1,
                                 !.rets = IF r.ret.is_none THEN @
                                          ELSE Append(@, r.ret.value)]
                 ELSE TxOff

\* reset(error_margin) called directly.
ResetCall(error_margin) ==
    /\ d' = reset(d, error_margin)
    /\ resets' = TRUE
    /\ op' = "reset"
    /\ arg' = error_margin
    /\ tx' = TxOff
    /\ UNCHANGED <<out, checks>>

----------------------------------------------------------------------------
(* SpecMulti: an InfraredMultiReceiver over sensors N, A and B, and beside *)
(* it the same receiver built without sensor N and given the same pulses.  *)

NoRound ==
    Received(InfraredMultiReceiver_init(<<>>), NonePacket, <<>>, NoneName, FALSE,
             <<>>, {})

\* The last receive() call without the receiver it left behind.
RoundOf(r) == [r EXCEPT !.rcv = InfraredMultiReceiver_init(<<>>)]

\* Before any receive() has returned a packet: the sensors that completed the
\* most recent returned packet with the margins their decoders recorded for
\* it, and the sensor whose packet was returned.
NoPacketYet == [any |-> FALSE, margins |-> <<>>, best |-> NoneName]

MultiInit ==
    /\ mr = InfraredMultiReceiver_init(Sensors)
    /\ sh = InfraredMultiReceiver_init(SensorsWithoutN)
    /\ m_round = NoRound
    /\ sh_round = NoRound
    /\ m_hist = NoPacketYet

\* The pulses of a transmission as one sensor sees them.
Seen(durations, jitter) == [i \in DOMAIN durations |-> durations[i] + jitter]

\* The encoder's pulses for byte b reach the sensors that see the
\* transmission, each with its own deviation: jitter maps those sensors to it.
Transmit(b, jitter) ==
    LET durations == TagInfraredEncoder_encode(<<b>>)
        Arrived(readers) ==
            [n \in DOMAIN readers |->
                IF n \in DOMAIN jitter
                THEN readers[n] \o Seen(durations, jitter[n])
                ELSE readers[n]]
    IN  /\ \A n \in DOMAIN jitter : Len(mr.pulse_readers[n]) <= MaxBacklog
        /\ mr' = [mr EXCEPT !.pulse_readers = Arrived(@)]
        /\ sh' = [sh EXCEPT !.pulse_readers = Arrived(@)]
        /\ UNCHANGED <<m_round, sh_round, m_hist>>

\* A single pulse reaches one sensor.
Noise(n, pulse) ==
    /\ Len(mr.pulse_readers[n]) < MaxNoise
    /\ mr' = [mr EXCEPT !.pulse_readers[n] = Append(@, pulse)]
    /\ sh' = [sh EXCEPT !.pulse_readers[n] = Append(@, pulse)]
    /\ UNCHANGED <<m_round, sh_round, m_hist>>

\* The host calls receive() on both receivers.
Receive ==
    \E r \in {InfraredMultiReceiver_receive(mr)},
       s \in {InfraredMultiReceiver_receive(sh)} :
        /\ mr' = r.rcv
        /\ m_round' = RoundOf(r)
        /\ sh' = s.rcv
        /\ sh_round' = RoundOf(s)
        /\ m_hist' = IF Len(r.datas) > 0
                     THEN [any |-> TRUE,
                           margins |-> [n \in Keys(r.datas) |-> r.held[n]],
                           best |-> r.best]
                     ELSE m_hist

----------------------------------------------------------------------------
(* SpecSingle: an InfraredSingleReceiver and the pulses queued at its sensor *)

NoCall == [ret |-> NonePacket, fed |-> <<>>, dry |-> FALSE]

\* The values of the ghost variable s_pkt: the decoder as it was in state 0
\* before the packet in progress, the pulses it has been given since, how
\* many of them it had been given when the latest receive() call began, and
\* whether that call returned the packet.
NoPulses(dec) == [base |-> dec, pulses |-> <<>>, early |-> 0, done |-> FALSE]

\* s_pkt after the decoder `dec` has been given the pulses of `fed` from the
\* i-th on.
RECURSIVE Track(_, _, _, _)
Track(pkt, dec, fed, i) ==
    IF i > Len(fed) THEN pkt
    ELSE LET r == TagInfraredDecoder_decode(dec, fed[i])
             given == [pkt EXCEPT !.pulses = Append(@, fed[i])]
         IN  IF ~r.ret.is_none THEN [given EXCEPT !.done = TRUE]
             ELSE IF r.dec.decoder_state = 0
             THEN Track(NoPulses(r.dec), r.dec, fed, i + 1)
             ELSE Track(given, r.dec, fed, i + 1)

SingleInit ==
    /\ sr = InfraredSingleReceiver_init
    /\ s_call = NoCall
    /\ s_air = <<>>
    /\ s_pkt = NoPulses(InfraredSingleReceiver_init.decoder)

\* The encoder's pulses for byte b reach the sensor, each deviating by jitter.
SourceTransmit(b, jitter) ==
    /\ s_air = <<>>
    /\ Len(sr.pulse_reader) <= MaxQueued
    /\ sr' = [sr EXCEPT !.pulse_reader =
                            @ \o Seen(TagInfraredEncoder_encode(<<b>>), jitter)]
    /\ UNCHANGED <<s_call, s_air, s_pkt>>

\* The first k pulses of the encoder's pulses for byte b reach the sensor; the
\* others are still to arrive.
SourceBegin(b, jitter, k) ==
    LET pulses == Seen(TagInfraredEncoder_encode(<<b>>), jitter)
    IN  /\ s_air = <<>>
        /\ Len(sr.pulse_reader) <= MaxQueued
        /\ sr' = [sr EXCEPT !.pulse_reader = @ \o SubSeq(pulses, 1, k)]
        /\ s_air' = SubSeq(pulses, k + 1, Len(pulses))
        /\ UNCHANGED <<s_call, s_pkt>>

\* The other pulses of the transmission reach the sensor.
SourceRest ==
    /\ s_air # <<>>
    /\ sr' = [sr EXCEPT !.pulse_reader = @ \o s_air]
    /\ s_air' = <<>>
    /\ UNCHANGED <<s_call, s_pkt>>

\* A single pulse reaches the sensor.
SourcePulse(pulse) ==
    /\ s_air = <<>>
    /\ Len(sr.pulse_reader) <= MaxQueued
    /\ sr' = [sr EXCEPT !.pulse_reader = Append(@, pulse)]
    /\ UNCHANGED <<s_call, s_air, s_pkt>>

\* The host calls receive().
SingleReceive ==
    \E r \in {InfraredSingleReceiver_receive(sr)} :
        /\ sr' = r.rcv
        /\ s_call' = [ret |-> r.ret, fed |-> r.fed, dry |-> r.dry]
        /\ s_pkt' = LET pkt == IF s_pkt.done THEN NoPulses(sr.decoder) ELSE s_pkt
                    IN  IF r.fed = <<>> THEN pkt
                        ELSE Track([pkt EXCEPT !.early = Len(pkt.pulses)],
                                   sr.decoder, r.fed, 1)
        /\ UNCHANGED s_air

----------------------------------------------------------------------------
(* SpecSend: an InfraredTransmitter, and a second writer for the override *)

NotSent == [data |-> <<>>, overridden |-> FALSE, fails |-> FALSE, raised |-> FALSE]

SendInit ==
    /\ tr = InfraredTransmitter_init
    /\ alt = <<>>
    /\ t_call = NotSent

\* send(data) or send(data, alt); `fails` says whether the write raises.
Send(data, overridden, fails) ==
    LET r == InfraredTransmitter_send(tr, data,
                 IF overridden THEN SomeWriter(alt) ELSE NoWriter, fails)
    IN  /\ tr.encoder.calls < MaxSends
        /\ tr' = r.t
        /\ alt' = IF overridden THEN r.override.value ELSE alt
        /\ t_call' = [data |-> data, overridden |-> overridden, fails |-> fails,
                      raised |-> r.raised]

----------------------------------------------------------------------------
(* SpecMW: one MWDecoder, from construction, under decode *)

NoDecode == [pulse |-> 0, ret |-> NonePacket]

\* The values of the ghost variable mw_tx: the byte being sent, the number of
\* its pulses given to the decoder, and the number of them that were flipped.
MWTxStart == [byte |-> 0, pos |-> 0, flips |-> 0]

MWInit ==
    /\ mw = MWDecoder_init
    /\ mw_call = NoDecode
    /\ mw_tx = MWTxStart

\* The effect of decode(pulse) within the followed transmission of byte b,
\* `flipped` of its bits more having arrived as the opposite bit.
MWDecode(pulse, b, flipped) ==
    \E r \in {MWDecoder_decode(mw, pulse)} :
        /\ mw' = r.dec
        /\ mw_call' = [pulse |-> pulse, ret |-> r.ret]
        /\ mw_tx' = IF r.dec.decoder_state = 0 THEN MWTxStart
                    ELSE [byte |-> b, pos |-> mw_tx.pos + 1,
                          flips |-> mw_tx.flips + flipped]

\* decode(pulse) with the next pulse of the encoder's output for byte b, the
\* pulse deviating by j; with `flip` a data or CRC bit arrives as the
\* opposite bit.
MWDecodeEncoded(b, flip, j) ==
    LET durations == TestEncoder_encode(<<b>>)
        sent == durations[mw_tx.pos + 1]
        is_bit == mw_tx.pos >= 2 /\ mw_tx.pos < Len(durations) - 1
        pulse == IF ~flip THEN sent
                 ELSE IF sent = IR_ONE THEN IR_ZERO ELSE IR_ONE
    IN  /\ mw_tx.pos < Len(durations)
        /\ flip => (is_bit /\ mw_tx.flips < MaxFlips)
        /\ MWDecode(pulse + j, b, IF flip THEN 1 ELSE 0)

\* decode(pulse) with a pulse from outside the transmission.
MWDecodeAny(pulse) == MWDecode(pulse, mw_tx.byte, 0)

----------------------------------------------------------------------------
(* SpecCodec: encode_tag_data and decode_tag_data applied to drawn inputs *)

CodecInit ==
    /\ tag \in TagInputs
    /\ enc = NotCalled
    /\ dcd = NotCalled

\* encode_tag_data(tag)
CodecEncode ==
    /\ enc = NotCalled
    /\ enc' = encode_tag_data(tag)
    /\ UNCHANGED <<tag, dcd>>

\* decode_tag_data of the bytes encode_tag_data returned
CodecDecode ==
    /\ enc.status = "returned"
    /\ dcd = NotCalled
    /\ dcd' = decode_tag_data(enc.bytes)
    /\ UNCHANGED <<tag, enc>>

----------------------------------------------------------------------------
(* SpecBits: one InfraredDecoder, from construction, under write_bit and *)
(* reset                                                                 *)

BitsInit ==
    /\ bw = InfraredDecoder_init(TAG_ERROR_MARGIN)
    /\ bw_bits = <<>>
    /\ bw_from = "new"

\* write_bit(bit)
BitsWrite(bit) ==
    /\ Len(bw_bits) < MaxBits
    /\ bw' = write_bit(bw, bit)
    /\ bw_bits' = Append(bw_bits, bit)
    /\ UNCHANGED bw_from

\* reset(error_margin)
BitsReset(error_margin) ==
    /\ bw' = reset(bw, error_margin)
    /\ bw_bits' = <<>>
    /\ bw_from' = "reset"

----------------------------------------------------------------------------
(* SpecRounds: an InfraredMultiReceiver over sensors A and B, each round of *)
(* the loop of receive() a step; pulses arrive only between the calls.     *)

\* The values of the ghost variable r_marg for one decoder: who made its most
\* recent reset ("none" before any, "abort" or "packet" for decode, "closing"
\* for the receiver), what the most recent reset made by decode was, and the
\* largest deviation among the pulses matched since the most recent reset.
NoResets == [recent |-> "none", decoded |-> "none", dev |-> 0]

\* The deviation of the pulse from the duration it was matched with, in the
\* check_pulse calls of one decode call; 0 if none matched.
MatchedDeviation(calls) ==
    LET Largest[i \in 0 .. Len(calls)] ==
            IF i = 0 THEN 0
            ELSE IF calls[i].match
            THEN Max(Largest[i - 1], Abs(calls[i].received - calls[i].expected))
            ELSE Largest[i - 1]
    IN  Largest[Len(calls)]

\* r_marg of a decoder after the decode call r.
AfterDecode(marg, r) ==
    IF r.did_reset
    THEN LET kind == IF r.ret.is_none THEN "abort" ELSE "packet"
         IN  [recent |-> kind, decoded |-> kind, dev |-> 0]
    ELSE [marg EXCEPT !.dev = Max(@, MatchedDeviation(r.calls))]

\* r_marg of a decoder after the receiver's reset at the end of a round that
\* returns a packet.
AfterClosing(marg) == [marg EXCEPT !.recent = "closing", !.dev = 0]

RoundsInit ==
    /\ rr = InfraredMultiReceiver_init(SensorsWithoutN)
    /\ r_pc = "idle"
    /\ r_ret = NonePacket
    /\ r_marg = [n \in DOMAIN rr.decoders |-> NoResets]

\* The encoder's pulses for byte b reach the sensors that see the
\* transmission, each with its own deviation.
RoundsTransmit(b, jitter) ==
    /\ r_pc = "idle"
    /\ \A n \in DOMAIN jitter : Len(rr.pulse_readers[n]) <= MaxRoundBacklog
    /\ rr' = [rr EXCEPT !.pulse_readers =
                  [n \in DOMAIN @ |->
                      IF n \in DOMAIN jitter
                      THEN @[n] \o Seen(TagInfraredEncoder_encode(<<b>>), jitter[n])
                      ELSE @[n]]]
    /\ UNCHANGED <<r_pc, r_ret, r_marg>>

\* A single pulse reaches one sensor.
RoundsNoise(n, pulse) ==
    /\ r_pc = "idle"
    /\ Len(rr.pulse_readers[n]) <= MaxRoundBacklog
    /\ rr' = [rr EXCEPT !.pulse_readers[n] = Append(@, pulse)]
    /\ UNCHANGED <<r_pc, r_ret, r_marg>>

\* The host calls receive(): data_available = True.
RoundsCall ==
    /\ r_pc = "idle"
    /\ r_pc' = "loop"
    /\ UNCHANGED <<rr, r_ret, r_marg>>

\* One round of the while loop; the round that leaves the loop returns.
RoundsRound ==
    /\ r_pc = "loop"
    /\ \E round \in {receive_round(rr)} :
           /\ rr' = round.out.rcv
           /\ r_pc' = IF round.again THEN "loop" ELSE "idle"
           /\ r_ret' = IF round.again THEN r_ret ELSE round.out.ret
           /\ r_marg' =
                 [n \in DOMAIN r_marg |->
                     LET decoded ==
                             IF rr.pulse_readers[n] = <<>> THEN r_marg[n]
                             ELSE AfterDecode(r_marg[n],
                                      TagInfraredDecoder_decode(
                                          rr.decoders[n], Head(rr.pulse_readers[n])))
                     IN  IF Len(round.out.datas) > 0 THEN AfterClosing(decoded)
                         ELSE decoded]

----------------------------------------------------------------------------
(* SpecEncoder: TagInfraredEncoder.encode applied to a drawn byte *)

EncoderInit ==
    /\ e_byte \in EncoderBytes
    /\ e_out = <<>>

\* encode([e_byte])
EncoderEncode ==
    /\ e_out = <<>>
    /\ e_out' = TagInfraredEncoder_encode(<<e_byte>>)
    /\ UNCHANGED e_byte

----------------------------------------------------------------------------
(* The specifications *)

DecoderIdle ==
    /\ d = TagInfraredDecoder_init
    /\ out = NonePacket
    /\ checks = <<>>
    /\ tx = TxOff
    /\ resets = FALSE
    /\ op = "new"
    /\ arg = 0

MultiIdle ==
    /\ mr = InfraredMultiReceiver_init(<<>>)
    /\ sh = InfraredMultiReceiver_init(<<>>)
    /\ m_round = NoRound
    /\ sh_round = NoRound
    /\ m_hist = NoPacketYet

CodecIdle ==
    /\ tag = TagData(0, 1, 1)
    /\ enc = NotCalled
    /\ dcd = NotCalled

SingleIdle ==
    /\ sr = InfraredSingleReceiver_init
    /\ s_call = NoCall
    /\ s_air = <<>>
    /\ s_pkt = NoPulses(InfraredSingleReceiver_init.decoder)

SendIdle ==
    /\ tr = InfraredTransmitter_init
    /\ alt = <<>>
    /\ t_call = NotSent

MWIdle ==
    /\ mw = MWDecoder_init
    /\ mw_call = NoDecode
    /\ mw_tx = MWTxStart

BitsIdle ==
    /\ bw = InfraredDecoder_init(TAG_ERROR_MARGIN)
    /\ bw_bits = <<>>
    /\ bw_from = "new"

EncoderIdle ==
    /\ e_byte = 0
    /\ e_out = <<>>

RoundsIdle ==
    /\ rr = InfraredMultiReceiver_init(<<>>)
    /\ r_pc = "idle"
    /\ r_ret = NonePacket
    /\ r_marg = <<>>

Init == DecoderInit /\ MultiIdle /\ CodecIdle /\ SingleIdle /\ SendIdle /\ MWIdle
    /\ BitsIdle
    /\ EncoderIdle
    /\ RoundsIdle

Next ==
    \/ \E b \in (IF tx.pos = 0 THEN TagBytes ELSE {tx.byte}), j \in Jitters :
           DecodeEncoded(b, j) /\ UNCHANGED exceptDecoder
    \/ \E pulse \in AnyPulses :
           DecodeAny(pulse) /\ UNCHANGED exceptDecoder
    \/ \E error_margin \in ResetMargins :
           ResetCall(error_margin) /\ UNCHANGED exceptDecoder

Spec == Init /\ [][Next]_vars

InitMulti ==
    MultiInit /\ DecoderIdle /\ CodecIdle /\ SingleIdle /\ SendIdle /\ MWIdle
    /\ BitsIdle
    /\ EncoderIdle
    /\ RoundsIdle

NextMulti ==
    \/ \E b \in MultiBytes, jitter \in Sightings :
           Transmit(b, jitter) /\ UNCHANGED exceptMulti
    \/ \E n \in Hearing, pulse \in NoisePulses :
           Noise(n, pulse) /\ UNCHANGED exceptMulti
    \/ Receive /\ UNCHANGED exceptMulti

SpecMulti == InitMulti /\ [][NextMulti]_vars

InitCodec ==
    CodecInit /\ DecoderIdle /\ MultiIdle /\ SingleIdle /\ SendIdle /\ MWIdle
    /\ BitsIdle
    /\ EncoderIdle
    /\ RoundsIdle

NextCodec ==
    \/ CodecEncode /\ UNCHANGED exceptCodec
    \/ CodecDecode /\ UNCHANGED exceptCodec

SpecCodec == InitCodec /\ [][NextCodec]_vars

InitSingle ==
    SingleInit /\ DecoderIdle /\ MultiIdle /\ CodecIdle /\ SendIdle /\ MWIdle
    /\ BitsIdle
    /\ EncoderIdle
    /\ RoundsIdle

NextSingle ==
    \/ \E b \in SingleBytes, jitter \in SingleJitters :
           SourceTransmit(b, jitter) /\ UNCHANGED exceptSingle
    \/ \E b \in SingleBytes, jitter \in SingleJitters, k \in SplitPoints :
           SourceBegin(b, jitter, k) /\ UNCHANGED exceptSingle
    \/ SourceRest /\ UNCHANGED exceptSingle
    \/ \E pulse \in SinglePulses :
           SourcePulse(pulse) /\ UNCHANGED exceptSingle
    \/ SingleReceive /\ UNCHANGED exceptSingle

SpecSingle == InitSingle /\ [][NextSingle]_vars

InitSend ==
    SendInit /\ DecoderIdle /\ MultiIdle /\ CodecIdle /\ SingleIdle /\ MWIdle
    /\ BitsIdle
    /\ EncoderIdle
    /\ RoundsIdle

NextSend ==
    \E b \in SendBytes, overridden \in BOOLEAN, fails \in BOOLEAN :
        Send(<<b>>, overridden, fails) /\ UNCHANGED exceptSend

SpecSend == InitSend /\ [][NextSend]_vars

InitMW ==
    MWInit /\ DecoderIdle /\ MultiIdle /\ CodecIdle /\ SingleIdle /\ SendIdle
    /\ BitsIdle
    /\ EncoderIdle
    /\ RoundsIdle

NextMW ==
    \/ \E b \in (IF mw_tx.pos = 0 THEN MWBytes ELSE {mw_tx.byte}),
          flip \in BOOLEAN, j \in MWJitters :
           MWDecodeEncoded(b, flip, j) /\ UNCHANGED exceptMW
    \/ \E pulse \in MWAnyPulses :
           MWDecodeAny(pulse) /\ UNCHANGED exceptMW

SpecMW == InitMW /\ [][NextMW]_vars

InitBits ==
    BitsInit /\ DecoderIdle /\ MultiIdle /\ CodecIdle /\ SingleIdle /\ SendIdle
    /\ MWIdle
    /\ EncoderIdle
    /\ RoundsIdle

NextBits ==
    \/ \E bit \in {0, 1} :
           BitsWrite(bit) /\ UNCHANGED exceptBits
    \/ \E error_margin \in BitsMargins :
           BitsReset(error_margin) /\ UNCHANGED exceptBits

SpecBits == InitBits /\ [][NextBits]_vars

InitEncoder ==
    EncoderInit /\ DecoderIdle /\ MultiIdle /\ CodecIdle /\ SingleIdle /\ SendIdle
    /\ MWIdle /\ BitsIdle
    /\ RoundsIdle

NextEncoder == EncoderEncode /\ UNCHANGED exceptEncoder

SpecEncoder == InitEncoder /\ [][NextEncoder]_vars

InitRounds ==
    RoundsInit /\ DecoderIdle /\ MultiIdle /\ CodecIdle /\ SingleIdle /\ SendIdle
    /\ MWIdle /\ BitsIdle /\ EncoderIdle

NextRounds ==
    \/ \E b \in MultiBytes, jitter \in Sightings :
           RoundsTransmit(b, jitter) /\ UNCHANGED exceptRounds
    \/ \E n \in Hearing, pulse \in NoisePulses :
           RoundsNoise(n, pulse) /\ UNCHANGED exceptRounds
    \/ RoundsCall /\ UNCHANGED exceptRounds
    \/ RoundsRound /\ UNCHANGED exceptRounds

SpecRounds == InitRounds /\ [][NextRounds]_vars

----------------------------------------------------------------------------
(* Claims about the tag decoder, checked under Spec *)

\* C1: for every tag byte b, feeding the 17 durations of
\* TagInfraredEncoder.encode([b]), in order, to a newly constructed
\* TagInfraredDecoder makes one of those 17 decode calls return [b].
C1_EncoderOutputDecodes ==
    (tx.src = "new" /\ tx.pos = TAG_TOTAL_PULSES /\ tx.dev = 0)
        => \E i \in DOMAIN tx.rets : tx.rets[i] = <<tx.byte>>

C8_ZeroAtThreshold ==
    /\ d.last_error_margin = d.error_threshold =>
           last_signal_strength(d).value = 0
    /\ d.last_error_margin = 0 =>
           last_signal_strength(d).value = StrengthScale(d)

\* C8 amended: the strength is 0.3 (1.3 - 1) when lastErrorMargin equals the
\* threshold and 1.0 when it is 0.
C8_ThreeTenthsAtThreshold ==
    /\ ~last_signal_strength(d).is_none
    /\ d.last_error_margin = d.error_threshold =>
           10 * last_signal_strength(d).value = 3 * StrengthScale(d)
    /\ d.last_error_margin = 0 =>
           last_signal_strength(d).value = StrengthScale(d)

\* C8 witness: a decode call has just aborted on a timing mismatch and
\* recorded the threshold.
C8_Witness ==
    /\ Len(checks) > 0
    /\ ~checks[Len(checks)].match
    /\ out.is_none
    /\ d.last_error_margin = TAG_ERROR_MARGIN

\* C9: after reset(m), the strength is 1.0 if m is 0 and otherwise
\* clamp(1.3 - m / errorThreshold, 0, 1), never below 0 nor above 1.
C9_StrengthClamped ==
    resets =>
        LET m == d.last_error_margin
            s == last_signal_strength(d).value
        IN  /\ s = IF m = 0 THEN StrengthScale(d)
                   ELSE Max(0, Min(StrengthScale(d), 13 * d.error_threshold - 10 * m))
            /\ s >= 0
            /\ s <= StrengthScale(d)

\* C10: until the first reset, last_error_margin and last_signal_strength
\* are None, on the decoder and through InfraredSingleReceiver.
C10_AbsentBeforeFirstPacket ==
    ~resets =>
        /\ last_error_margin(d).is_none
        /\ last_signal_strength(d).is_none
        /\ InfraredSingleReceiver_last_error_margin(d).is_none
        /\ InfraredSingleReceiver_last_signal_strength(d).is_none

\* The state reset(error_margin) leaves a tag decoder in.
ResetState(error_margin) ==
    [ error_threshold    |-> TAG_ERROR_MARGIN,
      decoder_state      |-> 0,
      received_data      |-> <<>>,
      received_bit_index |-> 7,
      received_byte      |-> 0,
      max_error_margin   |-> 0,
      last_error_margin  |-> error_margin ]

\* Whether a pulse is within the tolerance of an expected duration.
Near(pulse, expected) == Abs(pulse - expected) < TAG_ERROR_MARGIN

\* Whether a pulse matches what a state 0..16 expects: the preamble entry,
\* the mark at an even data offset, a space at an odd one.
Fits(state, pulse) ==
    IF state < Len(TAG_PREAMBLE) THEN Near(pulse, TAG_PREAMBLE[state + 1])
    ELSE IF (state - Len(TAG_PREAMBLE)) % 2 = 0 THEN Near(pulse, TAG_MARK)
    ELSE Near(pulse, TAG_SPACE_ZERO) \/ Near(pulse, TAG_SPACE_ONE)

\* C15: a decode call entered in a state 0..16 returns no packet; with a
\* pulse that does not match what the state expects it leaves the decoder in
\* the reset state with last_error_margin 500, with a matching pulse it
\* raises the state by exactly 1.
C15_MismatchAborts ==
    [][ (op' = "decode" /\ d.decoder_state < TAG_TOTAL_PULSES) =>
          /\ out'.is_none
          /\ Len(checks') > 0
          /\ IF Fits(d.decoder_state, checks'[1].received)
             THEN d'.decoder_state = d.decoder_state + 1
             ELSE d' = ResetState(TAG_ERROR_MARGIN) ]_vars

\* C15 witness: a decode call in a data state at an odd offset has tried both
\* spaces, matched neither and left the decoder reset with margin 500.
C15_Witness ==
    /\ op = "decode"
    /\ Len(checks) = 2
    /\ checks[1].expected = TAG_SPACE_ONE /\ ~checks[1].match
    /\ checks[2].expected = TAG_SPACE_ZERO /\ ~checks[2].match
    /\ d = ResetState(TAG_ERROR_MARGIN)

\* C16: the decode call that completes a followed transmission of byte b
\* returns exactly <<b>>, the 7 payload bits packed MSB-first, and leaves the
\* decoder in the reset state with last_error_margin equal to the largest
\* deviation of the transmission's pulses.
C16_PacketIsPayload ==
    (op = "decode" /\ tx.src # "off" /\ tx.pos = TAG_TOTAL_PULSES + 1) =>
        /\ out = SomePacket(<<tx.byte>>)
        /\ tx.byte \in 0 .. 127
        /\ tx.dev \in 0 .. (TAG_ERROR_MARGIN - 1)
        /\ d = ResetState(tx.dev)

----------------------------------------------------------------------------
(* Claims about the transmitter, checked under SpecSend *)

\* C17: a send() call calls encode once and makes exactly one write_pulses
\* call, with the encoder's durations for the data: on the override when one
\* is given, the default writer being left as it was, otherwise on the default
\* writer, the other writer being left as it was; the call raises exactly when
\* that write raises.
C17_SendWritesOnce ==
    [][ LET written == [pulses |-> TagInfraredEncoder_encode(t_call'.data),
                        raised |-> t_call'.fails]
        IN  /\ tr'.encoder.calls = tr.encoder.calls + 1
            /\ IF t_call'.overridden
               THEN /\ alt' = Append(alt, written)
                    /\ tr'.pulse_writer = tr.pulse_writer
               ELSE /\ tr'.pulse_writer = Append(tr.pulse_writer, written)
                    /\ alt' = alt
            /\ t_call'.raised = t_call'.fails ]_vars

\* C17 witness: a send() with an override whose write raised, after a send()
\* on the default writer.
C17_Witness ==
    /\ t_call.overridden
    /\ t_call.raised
    /\ Len(alt) = 1
    /\ alt[1].pulses = TagInfraredEncoder_encode(<<82>>)
    /\ Len(tr.pulse_writer) = 1
    /\ tr.encoder.calls = 2

----------------------------------------------------------------------------
(* Claims about the length-prefixed CRC decoder, checked under SpecMW *)

\* C20: a decode call that gets a lead-out pulse while data is being received,
\* with fewer than 2 bytes collected or with a last byte that differs from the
\* CRC of the bytes before it, returns no data and leaves the decoder in the
\* reset state with last_error_margin equal to the threshold.
C20_AbortRecordsThreshold ==
    [][ LET pulse == mw_call'.pulse
            data == mw.received_data
            lead_out == /\ mw.decoder_state = 2
                        /\ Abs(pulse - IR_LEAD_OUT) < IR_ERROR_MARGIN
            short == Len(data) < 2
            crc_differs ==
                /\ ~short
                /\ data[Len(data)] # calculate_crc(SubSeq(data, 1, Len(data) - 1))
        IN  (lead_out /\ (short \/ crc_differs)) =>
                /\ mw_call'.ret.is_none
                /\ mw' = [ResetState(IR_ERROR_MARGIN) EXCEPT
                              !.error_threshold = IR_ERROR_MARGIN] ]_vars

----------------------------------------------------------------------------
(* Claims about the single receiver, checked under SpecSingle *)

\* decode applied to the pulses of a queue in order, from the i-th: the
\* position of the first call that returns a packet (0 if none does), what it
\* returned, and the decoder after that call (after the last, if none does).
RECURSIVE FirstPacket(_, _, _)
FirstPacket(dec, queue, i) ==
    IF i > Len(queue) THEN [at |-> 0, ret |-> NonePacket, dec |-> dec]
    ELSE LET r == TagInfraredDecoder_decode(dec, queue[i])
         IN  IF ~r.ret.is_none THEN [at |-> i, ret |-> r.ret, dec |-> r.dec]
             ELSE FirstPacket(r.dec, queue, i + 1)

\* C11: a receive() call gives the queued pulses to the decoder in queue
\* order up to the first decode call that returns a packet, returns that
\* packet and leaves the pulses behind it queued; it returns None only when no
\* decode call returned a packet and read_pulse has reported an empty source,
\* every queued pulse having been given to the decoder.  (A step that does not
\* lengthen the queue is a receive() call.)
C11_SingleReceiveFifo ==
    [][ Len(sr'.pulse_reader) <= Len(sr.pulse_reader) =>
          LET first == FirstPacket(sr.decoder, sr.pulse_reader, 1)
              taken == IF first.at = 0 THEN Len(sr.pulse_reader) ELSE first.at
          IN  /\ s_call'.fed = SubSeq(sr.pulse_reader, 1, taken)
              /\ sr'.pulse_reader =
                     SubSeq(sr.pulse_reader, taken + 1, Len(sr.pulse_reader))
              /\ s_call'.ret = first.ret
              /\ sr'.decoder = first.dec
              /\ s_call'.ret.is_none => (s_call'.dry /\ sr'.pulse_reader = <<>>)
              /\ ~s_call'.ret.is_none => ~s_call'.dry ]_vars

\* A receive() call has returned a packet on the 18th pulse and left pulses
\* queued.
C11_Witness ==
    /\ ~s_call.ret.is_none
    /\ Len(s_call.fed) = TAG_TOTAL_PULSES + 1
    /\ Len(sr.pulse_reader) > 0

----------------------------------------------------------------------------
(* Claims about the multi-sensor receiver, checked under SpecMulti *)

\* C2: when two or more decoders complete a packet in the same round,
\* receive() returns the packet of a sensor whose recorded margin is the lowest
\* among those that completed, and last_best_receiver names that sensor.
C2_LowestMarginWins ==
    Len(m_round.datas) >= 2 =>
        LET completed == Keys(m_round.datas)
            w == m_round.best.value
        IN  /\ ~m_round.best.is_none
            /\ ~m_round.raised
            /\ w \in completed
            /\ m_round.ret = SomePacket(Lookup(m_round.datas, w))
            /\ \A n \in completed :
                   mr.decoders[w].last_error_margin <= mr.decoders[n].last_error_margin
            /\ last_best_receiver(mr) = SomeName(w)

\* C2 witness: A and B completed in the same round with margins 40 and 10,
\* and B's packet was returned.
C2_Witness ==
    /\ Keys(m_round.datas) = {"A", "B"}
    /\ mr.decoders["A"].last_error_margin = 40
    /\ mr.decoders["B"].last_error_margin = 10
    /\ m_round.best = SomeName("B")
    /\ ~m_round.ret.is_none
    /\ last_best_receiver(mr) = SomeName("B")

\* C3: the receiver with the silent sensor N returns what the receiver without
\* it returns, with the same winner and the same snapshot, and N is never in
\* the snapshot.
C3_SilentSensorHasNoEffect ==
    /\ m_round.ret = sh_round.ret
    /\ m_round.datas = sh_round.datas
    /\ m_round.best = sh_round.best
    /\ m_round.raised = sh_round.raised
    /\ \A n \in DOMAIN sh_round.held : m_round.held[n] = sh_round.held[n]
    /\ m_round.midway = sh_round.midway
    /\ last_best_receiver(mr) = last_best_receiver(sh)
    /\ last_error_margins(mr) = last_error_margins(sh)
    /\ last_signal_strengths(mr) = last_signal_strengths(sh)
    /\ last_receivers(mr) = last_receivers(sh)
    /\ "N" \notin Keys(mr.last_error_margins) \cup Keys(mr.last_signal_strengths)
    /\ \A n \in Hearing :
           /\ mr.decoders[n] = sh.decoders[n]
           /\ mr.pulse_readers[n] = sh.pulse_readers[n]

\* C3 witness: a packet was returned while N was among the sensors: its
\* decoder was reset with the others, and its reader is still empty.
C3_Witness ==
    /\ ~m_round.ret.is_none
    /\ Keys(m_round.datas) = {"A", "B"}
    /\ "N" \in DOMAIN mr.decoders
    /\ mr.decoders["N"].received_bit_index = 7
    /\ mr.pulse_readers["N"] = <<>>
    /\ Len(last_receivers(mr)) = 2

\* decode applied to pulses in order from the i-th, whatever it returns: the
\* decoder afterwards.
RECURSIVE Replay(_, _, _)
Replay(dec, pulses, i) ==
    IF i > Len(pulses) THEN dec
    ELSE Replay(TagInfraredDecoder_decode(dec, pulses[i]).dec, pulses, i + 1)

\* The pulses a step removed from the head of sensor n's queue.
Taken(before, after, n) ==
    SubSeq(before.pulse_readers[n], 1,
           Len(before.pulse_readers[n]) - Len(after.pulse_readers[n]))

\* A step in which no sensor's queue grows: a receive() call.
ReceiveStep ==
    \A n \in DOMAIN mr.pulse_readers :
        Len(mr'.pulse_readers[n]) <= Len(mr.pulse_readers[n])

\* C12: a receive() call takes pulses from the head of each sensor's queue
\* only, as many from each as there were rounds or as the queue held if that
\* is fewer (one a round, an empty source skipped); every decoder ends as
\* decode applied to the pulses taken from its own sensor, in queue order,
\* leaves it (and then reset, when a packet is returned).
C12_OwnPulsesInOrder ==
    [][ ReceiveStep =>
          LET taken == [n \in DOMAIN mr.pulse_readers |-> Taken(mr, mr', n)]
              IsRounds(k) == /\ \A n \in DOMAIN taken : Len(taken[n]) <= k
                             /\ \E n \in DOMAIN taken : Len(taken[n]) = k
              rounds == CHOOSE k \in 0 .. 2 * (MaxBacklog + MaxNoise + TAG_TOTAL_PULSES) :
                            IsRounds(k)
          IN  \A n \in DOMAIN mr.pulse_readers :
                  LET seen == Replay(mr.decoders[n], taken[n], 1)
                  IN  /\ mr.pulse_readers[n] = taken[n] \o mr'.pulse_readers[n]
                      /\ Len(taken[n]) = Min(rounds, Len(mr.pulse_readers[n]))
                      /\ mr'.decoders[n] =
                             IF Len(m_round'.datas) > 0
                             THEN reset(seen, seen.last_error_margin)
                             ELSE seen ]_vars

\* C12 witness: receive() calls left A's decoder holding the 17 pulses of a
\* transmission seen at deviation 10 and B's decoder, after an abort, those
\* of one seen at deviation 40.
C12_Witness ==
    /\ m_round.ret.is_none
    /\ mr.decoders["A"].decoder_state = TAG_TOTAL_PULSES
    /\ mr.decoders["A"].max_error_margin = 10
    /\ mr.decoders["B"].decoder_state = TAG_TOTAL_PULSES
    /\ mr.decoders["B"].max_error_margin = 40
    /\ mr.decoders["B"].last_error_margin = TAG_ERROR_MARGIN
    /\ mr.decoders["N"].decoder_state = 0
    /\ \A n \in DOMAIN mr.pulse_readers : mr.pulse_readers[n] = <<>>

\* The signal strength a decoder reports for a last_error_margin.
StrengthOf(margin) ==
    last_signal_strength([TagInfraredDecoder_init EXCEPT
                              !.last_error_margin = margin]).value

\* C13: the snapshot's keys are exactly the sensors whose decoders completed
\* the most recent returned packet, each with the margin its decoder recorded
\* for that packet and the strength of that margin; a later packet replaces
\* it whole, a receive() that returns None leaves it, and it is empty before
\* the first packet.
C13_SnapshotOfLastPacket ==
    /\ Keys(mr.last_error_margins) = DOMAIN m_hist.margins
    /\ Keys(mr.last_signal_strengths) = DOMAIN m_hist.margins
    /\ Len(mr.last_error_margins) = Cardinality(DOMAIN m_hist.margins)
    /\ Len(mr.last_signal_strengths) = Cardinality(DOMAIN m_hist.margins)
    /\ \A n \in DOMAIN m_hist.margins :
           /\ Lookup(mr.last_error_margins, n) = m_hist.margins[n]
           /\ Lookup(mr.last_signal_strengths, n) = StrengthOf(m_hist.margins[n])
    /\ ~m_hist.any => DOMAIN m_hist.margins = {}

\* C13 witness: the snapshot of a packet only B completed is in place after a
\* later receive() that fed pulses to A and returned None.
C13_Witness ==
    /\ m_hist.any
    /\ m_round.ret.is_none
    /\ Keys(mr.last_error_margins) = {"B"}
    /\ mr.decoders["A"].decoder_state = TAG_TOTAL_PULSES

\* C14: when receive() has returned a packet, every decoder is in the reset
\* state (state 0, no bytes, bit writer at 7, maximum margin 0) and its
\* last_error_margin is what it held when the closing reset was called.
C14_AllResetOnPacket ==
    ~m_round.ret.is_none =>
        \A n \in DOMAIN mr.decoders :
            /\ mr.decoders[n].decoder_state = 0
            /\ mr.decoders[n].received_data = <<>>
            /\ mr.decoders[n].received_bit_index = 7
            /\ mr.decoders[n].received_byte = 0
            /\ mr.decoders[n].max_error_margin = 0
            /\ mr.decoders[n].last_error_margin = m_round.held[n]

\* C14 witness: A's packet was returned while B was in the middle of a packet
\* and N had never had a pulse.
C14_Witness ==
    /\ ~m_round.ret.is_none
    /\ Keys(m_round.datas) = {"A"}
    /\ m_round.midway = {"B"}
    /\ mr.decoders["B"].decoder_state = 0
    /\ mr.decoders["N"].received_bit_index = 7

\* The first sensor, in construction order from the i-th, that is in a set.
RECURSIVE FirstOf(_, _, _)
FirstOf(names, i, set) ==
    IF names[i] \in set THEN names[i] ELSE FirstOf(names, i + 1, set)

\* C18: when the final round completed packets, the packet returned is that
\* of the first sensor, in construction order, among those that completed with
\* the lowest margin, and last_best_receiver names that sensor.
C18_FirstOfEqualMarginsWins ==
    Len(m_round.datas) > 0 =>
        LET completed == Keys(m_round.datas)
            lowest == {n \in completed :
                          \A o \in completed : m_round.held[n] <= m_round.held[o]}
            first == FirstOf(mr.names, 1, lowest)
        IN  /\ m_round.best = SomeName(first)
            /\ m_round.ret = SomePacket(Lookup(m_round.datas, first))
            /\ last_best_receiver(mr) = SomeName(first)

\* C18 witness: A and B completed in the same round with the same margin and
\* A, the earlier sensor, was chosen.
C18_Witness ==
    /\ Keys(m_round.datas) = {"A", "B"}
    /\ m_round.held["A"] = m_round.held["B"]
    /\ m_round.best = SomeName("A")
    /\ last_best_receiver(mr) = SomeName("A")

\* C19: last_receivers lists exactly the snapshot's sensors, each once, in
\* ascending margin; with a non-empty snapshot last_best_receiver is a sensor
\* of lowest margin, the first of last_receivers and the sensor whose packet
\* was returned, and last_error_margin and last_signal_strength are its
\* snapshot values; with an empty snapshot, as before any packet, the three
\* are None and the lists are empty.
C19_SnapshotQueriesAgree ==
    LET receivers == last_receivers(mr)
        margins == mr.last_error_margins
        best == last_best_receiver(mr)
    IN  /\ {receivers[i] : i \in DOMAIN receivers} = Keys(margins)
        /\ Len(receivers) = Cardinality(Keys(margins))
        /\ \A i, j \in DOMAIN receivers :
               i < j => Lookup(margins, receivers[i]) <= Lookup(margins, receivers[j])
        /\ Len(margins) > 0 =>
               /\ ~best.is_none
               /\ best.value \in Keys(margins)
               /\ \A n \in Keys(margins) :
                      Lookup(margins, best.value) <= Lookup(margins, n)
               /\ best.value = receivers[1]
               /\ best = m_hist.best
               /\ InfraredMultiReceiver_last_error_margin(mr) =
                      SomeInt(Lookup(margins, best.value))
               /\ InfraredMultiReceiver_last_signal_strength(mr) =
                      SomeInt(Lookup(mr.last_signal_strengths, best.value))
               /\ last_error_margins(mr)[1] = Entry(best.value, Lookup(margins, best.value))
        /\ Len(margins) = 0 =>
               /\ best.is_none
               /\ InfraredMultiReceiver_last_error_margin(mr).is_none
               /\ InfraredMultiReceiver_last_signal_strength(mr).is_none
               /\ receivers = <<>>
               /\ last_error_margins(mr) = <<>>
               /\ last_signal_strengths(mr) = <<>>
        /\ ~m_hist.any => Len(margins) = 0

\* C19 witness: a snapshot of two sensors, the second of them the better.
C19_Witness ==
    /\ Len(mr.last_error_margins) = 2
    /\ last_receivers(mr) = <<"B", "A">>
    /\ InfraredMultiReceiver_last_error_margin(mr) = SomeInt(10)
    /\ Lookup(mr.last_error_margins, "A") = 40

----------------------------------------------------------------------------
(* Claims about the tag field codec, checked under SpecCodec *)

InRange(t) == t.team \in 0 .. 3 /\ t.player \in 1 .. 8 /\ t.damage \in 1 .. 4

\* C6: for every TagData in range, decode_tag_data(encode_tag_data(t)) has
\* the team, player and damage of t.
C6_CodecRoundTrip ==
    (InRange(tag) /\ dcd # NotCalled) =>
        /\ dcd.status = "returned"
        /\ dcd.tag.team = tag.team
        /\ dcd.tag.player = tag.player
        /\ dcd.tag.damage = tag.damage

\* C6 witness: (2, 5, 3) encoded to 0x52 and decoded back.
C6_Witness ==
    /\ tag = TagData(2, 5, 3)
    /\ enc = ReturnedBytes(<<82>>)
    /\ dcd = ReturnedTag(TagData(2, 5, 3))

\* C7: encode_tag_data raises, producing no byte, when a field is out of
\* range, and otherwise returns the one byte
\* team<<5 | (player-1)<<2 | (damage-1), whose bit 7 is 0.
C7_EncodeRejectsOutOfRange ==
    enc # NotCalled =>
        IF InRange(tag)
        THEN /\ enc = ReturnedBytes(
                          <<tag.team * 32 + (tag.player - 1) * 4 + (tag.damage - 1)>>)
             /\ enc.bytes[1] < 128
        ELSE /\ enc.status = "ValueError"
             /\ enc.bytes = <<>>

\* C7 witness: player 9 with a valid team and damage was rejected.
C7_Witness ==
    /\ tag = TagData(3, 9, 4)
    /\ enc = Raised


\* C26: decode returns a packet exactly on the calls entered in state 17, the
\* state reached from state 16 by the 17th matched pulse, never on the call
\* that consumes that pulse.  The call entered in state 17 examines no pulse
\* duration: whatever the pulse is, it returns one byte and leaves the decoder
\* in the reset state (state 0, not 1), the packet's largest margin recorded.
C26_PacketOnlyFromCompletion ==
    [][ op' = "decode" =>
          /\ ~out'.is_none <=> d.decoder_state = 17
          /\ d'.decoder_state = 17 => d.decoder_state = 16 /\ Len(checks') > 0
          /\ d.decoder_state = 17 =>
                /\ Len(out'.value) = 1
                /\ checks' = <<>>
                /\ d' = ResetState(d.max_error_margin)
      ]_vars

\* A whole transmission has been followed and the 18th pulse was 3000, the
\* first preamble duration: the call returned the packet and the decoder is
\* in state 0.
C26_Witness ==
    /\ op = "decode"
    /\ arg = 3000
    /\ tx.pos = 18
    /\ ~out.is_none
    /\ checks = <<>>
    /\ d.decoder_state = 0

\* C27: a pulse that aborts a packet is consumed and not examined again as
\* the start of a new packet.  A decode call entered in a state 1..16 with a
\* pulse that does not match what the state expects returns nothing and
\* leaves the decoder in the reset state, state 0, with margin 500, also when
\* the pulse is within tolerance of the first preamble duration 3000: nothing
\* of the pulse is kept, and a packet is recognised only from a later pulse.
C27_AbortingPulseConsumed ==
    [][ (/\ op' = "decode"
         /\ d.decoder_state \in 1 .. 16
         /\ ~Fits(d.decoder_state, arg')) =>
            /\ out'.is_none
            /\ d' = ResetState(TAG_ERROR_MARGIN)
      ]_vars

\* The pulse 3499, within tolerance of 3000, arrived in state 1, where 6000
\* is expected: the packet was aborted and the decoder is in state 0, not 1.
C27_Witness ==
    /\ op = "decode"
    /\ arg = 3499
    /\ Near(arg, TAG_PREAMBLE[1])
    /\ Len(checks) = 1
    /\ checks[1].expected = TAG_PREAMBLE[2]
    /\ ~checks[1].match
    /\ d = ResetState(TAG_ERROR_MARGIN)

\* C30: in every state a Tag decoder reaches by decode and reset calls,
\* decoder_state is within 0..17 and at most one byte has been received, so
\* decode is never entered in a state beyond 17, where its last branch would
\* be taken.
C30_StateAndBytesBounded ==
    /\ d.decoder_state \in 0 .. 17
    /\ Len(d.received_data) <= 1

\* A never-reset decoder has matched 17 pulses: it is in state 17 and holds
\* one received byte.
C30_Witness ==
    /\ ~resets
    /\ d.decoder_state = 17
    /\ Len(d.received_data) = 1

\* C22: reset(m) leaves the decoder in one state whatever state it is called
\* in: state 0, no received bytes, an empty byte at bit index 7, largest
\* margin 0 and last margin m; the error threshold is the one it had.
C22_ResetStateIsFixed ==
    [][ op' = "reset" =>
            d' = [ResetState(arg') EXCEPT !.error_threshold = d.error_threshold]
      ]_vars

\* reset(650) has been called in the middle of a packet: the last decode call
\* before it matched a mark, which left the decoder waiting for a space.
C22_Witness ==
    /\ op = "reset"
    /\ arg = 650
    /\ Len(checks) = 1
    /\ checks[1].match
    /\ checks[1].expected = TAG_MARK
    /\ d = ResetState(650)

----------------------------------------------------------------------------
(* Claims about the bit writer, checked under SpecBits *)

\* The byte the bits pack into, the first bit the most significant; fewer
\* than 8 bits fill the high positions.
PackMsbFirst(bits) ==
    LET Value[i \in 0 .. Len(bits)] ==
            IF i = 0 THEN 0 ELSE Value[i - 1] + bits[i] * Shl(1, 8 - i)
    IN  Value[Len(bits)]

\* C21: counting from decoder construction or from any reset, the k-th
\* write_bit call of a byte places its bit at position 8-k of the byte being
\* assembled, the 8th call appends the byte to the received bytes and the
\* accumulator restarts empty at position 7; after 8n writes the received
\* bytes are exactly the n bytes of the written bit sequence.
C21_BitsPackedMsbFirst ==
    LET k == Len(bw_bits)
        n == k \div 8
    IN  /\ Len(bw.received_data) = n
        /\ \A i \in 1 .. n :
               bw.received_data[i] =
                   PackMsbFirst(SubSeq(bw_bits, 8 * i - 7, 8 * i))
        /\ bw.received_byte = PackMsbFirst(SubSeq(bw_bits, 8 * n + 1, k))
        /\ bw.received_bit_index = 7 - (k % 8)

\* C23: in every state a decoder reaches from construction by write_bit and
\* reset calls, the bit index is within 0..7 once the call has ended.
C23_BitIndexInRange == bw.received_bit_index \in 0 .. 7

\* Eight bits written after a reset: the index has gone from 7 down to 0 and
\* the eighth write has completed a byte and put it back to 7.
C23_Witness ==
    /\ bw_from = "reset"
    /\ Len(bw_bits) = 8
    /\ Len(bw.received_data) = 1
    /\ bw.received_bit_index = 7

----------------------------------------------------------------------------
(* Claims about the tag encoder, checked under SpecEncoder *)

\* C24: for every byte b, encode([b]) returns exactly 17 durations: 3000,
\* 6000, 3000, then for each of bits 6 down to 0 of b a 2000 mark followed by
\* a 2000 space if the bit is 1 and a 1000 space if it is 0; bit 7 is
\* discarded, so the byte that differs from b only in bit 7 encodes to the
\* same durations.
C24_EncodesLowSevenBits ==
    e_out # <<>> =>
        /\ Len(e_out) = 17
        /\ SubSeq(e_out, 1, 3) = <<3000, 6000, 3000>>
        /\ \A i \in 0 .. 6 :
               /\ e_out[4 + 2 * i] = 2000
               /\ e_out[5 + 2 * i] =
                      IF (e_byte \div (2 ^ (6 - i))) % 2 = 1 THEN 2000 ELSE 1000
        /\ e_out = TagInfraredEncoder_encode(<<(e_byte + 128) % 256>>)

\* encode([210]) has returned: 210 is 82 with bit 7 set, and the durations are
\* those of the bits 1010010.
C24_Witness ==
    /\ e_byte = 210
    /\ e_out = <<3000, 6000, 3000, 2000, 2000, 2000, 1000, 2000, 2000,
                 2000, 1000, 2000, 1000, 2000, 2000, 2000, 1000>>

----------------------------------------------------------------------------
(* Claims about the rounds of the multi receiver, checked under SpecRounds *)

\* The pulses queued at all the sensors of a receiver.
Queued(rcv) ==
    LET Sum[i \in 0 .. Len(rcv.names)] ==
            IF i = 0 THEN 0
            ELSE Sum[i - 1] + Len(rcv.pulse_readers[rcv.names[i]])
    IN  Sum[Len(rcv.names)]

\* C25: receive() terminates when the queues are finite and not refilled
\* during the call.  Every round takes from each queue nothing or its oldest
\* pulse, so no pulse is pulled twice; a round after which the loop goes on
\* has consumed at least one pulse, so the number of queued pulses, which is
\* never negative, bounds the rounds; the round that ends the call returns a
\* packet, having consumed a pulse, or None, and None only when every queue
\* was empty at that round.
C25_ReceiveTerminates ==
    [][ r_pc = "loop" =>
          /\ \A n \in DOMAIN rr.pulse_readers :
                 \/ rr'.pulse_readers[n] = rr.pulse_readers[n]
                 \/ /\ rr.pulse_readers[n] # <<>>
                    /\ rr'.pulse_readers[n] = Tail(rr.pulse_readers[n])
          /\ r_pc' = "loop" => Queued(rr') < Queued(rr)
          /\ (r_pc' = "idle" /\ r_ret'.is_none) => Queued(rr) = 0
          /\ (r_pc' = "idle" /\ ~r_ret'.is_none) => Queued(rr') < Queued(rr)
      ]_vars

\* A call has gone through rounds that consumed pulses without a packet, and
\* its last round found every queue empty and returned None.
C25_Witness ==
    /\ r_pc = "idle"
    /\ r_ret.is_none
    /\ Queued(rr) = 0
    /\ \E n \in DOMAIN rr.decoders : rr.decoders[n].decoder_state = TAG_TOTAL_PULSES

----------------------------------------------------------------------------
(* Claims about the decoder between receive() calls, checked under *)
(* SpecSingle                                                      *)

\* C28: the decoder's partial state persists between receive() calls.  While
\* a packet is in progress the last call has returned None and the decoder,
\* past state 0, is in the state that the pulses given to it since state 0,
\* in whatever calls, lead to; and when a call returns the packet, the packet
\* and the decoder left behind, its recorded margin included, are those of a
\* single receive() call that finds all those pulses queued.
C28_PartialStatePersists ==
    /\ s_pkt.done <=> ~s_call.ret.is_none
    /\ ~s_pkt.done =>
          /\ sr.decoder = Replay(s_pkt.base, s_pkt.pulses, 1)
          /\ s_pkt.pulses # <<>> => sr.decoder.decoder_state > 0
    /\ s_pkt.done =>
          LET one == FirstPacket(s_pkt.base, s_pkt.pulses, 1)
          IN  /\ one.at = Len(s_pkt.pulses)
              /\ one.ret = s_call.ret
              /\ one.dec = sr.decoder

\* The source ran empty after 8 pulses of a transmission of byte 82 that
\* deviates by 30; a receive() call returned None and a later one, given the
\* other pulses, returned the packet [82] with margin 30.
C28_Witness ==
    /\ s_pkt.done
    /\ s_pkt.early = 8
    /\ Len(s_pkt.pulses) = TAG_TOTAL_PULSES + 1
    /\ s_call.ret = SomePacket(<<82>>)
    /\ sr.decoder.last_error_margin = 30

----------------------------------------------------------------------------
(* Claims about the error margins of the decoders of a receiver, checked *)
(* under SpecRounds                                                      *)

\* The bounds of a decoder's margins: the largest margin of the packet in
\* progress is below the threshold and is the largest deviation among the
\* pulses matched since the last reset, the recorded margin is at most the
\* threshold.
MarginBounds(dec, marg) ==
    /\ 0 <= dec.max_error_margin
    /\ dec.max_error_margin < dec.error_threshold
    /\ dec.max_error_margin = marg.dev
    /\ 0 <= dec.last_error_margin
    /\ dec.last_error_margin <= dec.error_threshold

\* C29 as stated: in every state of a Tag decoder driven through a receiver
\* the margin bounds hold and the recorded margin equals the threshold
\* exactly when the decoder's most recent reset was an abort.
C29_ThresholdIffLastResetAbort ==
    \A n \in DOMAIN rr.decoders :
        /\ MarginBounds(rr.decoders[n], r_marg[n])
        /\ rr.decoders[n].last_error_margin = rr.decoders[n].error_threshold
               <=> r_marg[n].recent = "abort"

\* C29, amended: the margin bounds hold, and the recorded margin equals the
\* threshold exactly when the most recent reset made by decode was an abort;
\* the receiver's reset at the end of a round that returns a packet records
\* again the margin the decoder held.
C29_ThresholdIffLastDecodeResetAbort ==
    \A n \in DOMAIN rr.decoders :
        /\ MarginBounds(rr.decoders[n], r_marg[n])
        /\ rr.decoders[n].last_error_margin = rr.decoders[n].error_threshold
               <=> r_marg[n].decoded = "abort"

\* A decoder that had aborted a packet was reset by the receiver when the
\* other sensor completed one, and still records the threshold; the other
\* holds the margin of its packet.
C29_Witness ==
    /\ r_marg["A"] = [recent |-> "closing", decoded |-> "abort", dev |-> 0]
    /\ rr.decoders["A"].last_error_margin = TAG_ERROR_MARGIN
    /\ r_marg["B"].decoded = "packet"
    /\ rr.decoders["B"].last_error_margin = 40

====
